---- MODULE Spec2Model ----
(***************************************************************************)
(* Model of the dual-wire firmware (BIOS password removal / Windows 10     *)
(* install device): setup() and loop(), the two safety wires D7 and D10,   *)
(* the two keystroke scripts and the dynamic DOWN adjustment window.       *)
(*                                                                         *)
(* The firmware is a single thread of control.  Each action below is one   *)
(* stretch of straight-line code between two points at which the firmware  *)
(* reads a pin or the clock; the wires are moved by the environment        *)
(* (EnvFlip) at any moment between two such stretches.                     *)
(*                                                                         *)
(* millis() is a free-running 32-bit counter.  The firmware reads it only  *)
(* in the boot-key spam loop and in the adjustment window, and only        *)
(* relative to a start value captured on entry.  Its value at a capture is *)
(* therefore an input (ClockStarts); between a capture and the end of the  *)
(* loop the model advances it by the delays the code executes; outside     *)
(* those loops it is not tracked and is kept at 0.                         *)
(*                                                                         *)
(* haltWithError, blinkErrorPattern, checkHardware (with checkSwitchWiring) *)
(* and dynamicDownAdjustment are also run on their own, each from its own  *)
(* initial states, over all the arguments the bounds allow.                *)
(*                                                                         *)
(* An unsigned long is held as its two's complement reading, a number in   *)
(* -2^31 .. 2^31 - 1: the counter value u is held as u when u < 2^31 and   *)
(* as u - 2^32 otherwise, so that the roll-over of the counter from        *)
(* 2^32 - 1 to 0 is the step from -1 to 0.                                 *)
(***************************************************************************)
EXTENDS Integers, Sequences, FiniteSets, TLC

\* ------------------------------------------------------------------------
\* Program constants
\* ------------------------------------------------------------------------
DEMO_MODE == 0
ARM_HOLD_TIME == 3000
BUTTON_DEBOUNCE == 50
BOOT_MENU_POSITION == 2
SCREEN_DELAY == 3000
WIN_SETUP_WAIT == 45
PARTITION_DELAY == 1500
DELETE_ATTEMPTS == 10
BLINK_PERIOD == 500
KEY_DELAY == 100
KEY_HOLD_DELAY == 50
BOOT_SPAM_DURATION == 10000
LCD_ADDRESS == 63

MAX_SWEEPS == 4
SWEEP_POSITIONS == 8
POLL_DELAY == 50
TOUCH_DELAY == 200

\* ------------------------------------------------------------------------
\* Bounds of the model
\* ------------------------------------------------------------------------
\* number of times the environment moves a wire during one power cycle
MaxFlips == 3
\* saturation of the counter of arming-wait polls (history only)
MaxWaitPolls == 2
\* saturation of the counter of consecutive asserted polls (history only)
MaxHeldPolls == 10
\* largest wait, in seconds, dynamicDownAdjustment is called with on its own
MaxWaitSec == 2
\* touches of one window the model tells apart: the counter of the window
\* and the key log stop growing there (the loop never reads either)
MaxTouches == 4

\* largest value of an ErrorCode getErrorInfo is called with: the values of
\* the enumeration are 0 .. 127 (its largest enumerator is 99)
MaxCode == 127

\* changes of the wires in the runs in which the steps are looked at one by
\* one
MaxInputChanges == 1

\* calls the caller of the keyboard utilities makes
MaxCalls == 3

\* I2C bus populations the device may be powered up with
BusConfigs == { {}, {LCD_ADDRESS}, {39}, {80}, {39, LCD_ADDRESS} }

\* values of millis() at the moment a loop captures its start time:
\* 0 and 2^32 - 500 (the counter rolls over half a second later)
ClockStarts == { 0, -500 }

VARIABLES
    pc,               \* position of the single thread of control
    ip,               \* index of the next step of the running script
    scriptRun,        \* "none", "bios", "win10" or "wipe": the script run
    d7, d10,          \* level of the two wires' pins: "LOW" = wire to GND
    flips,            \* number of wire movements so far
    bus,              \* set of I2C addresses that acknowledge
    lcdAvailable,
    payloadExecuted,
    led,
    lcd,              \* the two lines last written by showStatus (the
                      \* position counters printed over line 2 are not kept)
    shown,            \* the countdown number last printed over line 2,
                      \* -1 before the first one
    win10Mode,        \* local of setup(), assigned at line 1330
    keyboardBegun,    \* Keyboard.begin() has been called
    out,              \* keys sent on the HID channel, in order
    errorNum,         \* argument of haltWithError and blinkErrorPattern,
                      \* 0 when not halted
    blinkStage,       \* position in the loop of blinkErrorPattern
    blinkI,           \* loop index i of the running for loop
    blinkMs,          \* how long the LED was lit by the last blink
    now,              \* millis(), tracked inside the timed loops
    startTime,        \* local of the spam loop
    initialWaitSec, touchWaitSec,
                      \* parameters of dynamicDownAdjustment
    windowStart, currentWait, extraDowns, wasConnected,
                      \* locals of dynamicDownAdjustment
    \* history variables (not program state)
    sawArmed,         \* a gate read of D7 has returned HIGH
    waited,           \* the device has gone through the arming wait
    resolveD7,        \* level D7 had when isWin10Mode() read it
    resolveD10,       \* level D10 had when isWin10Mode() read it
    dispatches,       \* number of script dispatches
    waitPolls,        \* polls of the current arming wait that read LOW
    harness,          \* TRUE when dynamicDownAdjustment is run on its own
    keepHist,         \* TRUE when the history of the call is kept
    \* history of one call of dynamicDownAdjustment, kept under the harness
    lastPollD7,       \* level D7 had at the previous poll of the window
    heldPolls,        \* consecutive polls that read D7 asserted (saturating)
    holdDowns,        \* DOWN actions emitted during the current assertion
    spent,            \* milliseconds executed since the call was entered
    edgeAt,           \* value of spent at the poll that detected an edge
    \* locals of checkSwitchWiring and the value checkHardware returns
    highCount, lowCount,
    hwResult,         \* -1 until checkHardware has returned
    \* what haltWithError has reported
    flashCount,       \* backlight flashes made by flashDisplay
    serial,           \* the error lines last printed on Serial
    \* history of the current cycle of blinkErrorPattern
    longBlinks,       \* LED pulses of the long cadence made in the cycle
    shortBlinks,      \* LED pulses of the short cadence made in the cycle
    blinkPause,       \* the pause, in ms, that followed the last group
    \* getErrorInfo and blinkErrorPattern applied to a pair of codes
    codeA, codeB,     \* the two arguments
    infoA, infoB,     \* the struct getErrorInfo returned for each
    cycleA, cycleB,   \* the LED pulses of one cycle of the pattern of each
    \* the firmware armed by a push button (src/main.cpp)
    lastSecond,       \* local of waitForArmHold
    ledState,         \* local of setup(): the heartbeat LED is lit
    sinceBlink,       \* millis() - lastBlink, kept up to one past the period
    allPressed,       \* history: every sample of the button taken since the
                      \* hold countdown started read pressed
    cancels,          \* history: holds given up so far (saturating)
    \* the keyboard utilities called on their own (keyboard_utils.cpp)
    demoMode,         \* the build was made with DEMO_MODE 1
    calls,            \* calls of a utility made so far
    hidCalls,         \* calls of the Keyboard object made so far
    durationMs, intervalMs,
                      \* arguments of the running spamKey
    key,              \* argument of the running spamKey
    spamCount,        \* local count of spamKey, and the value returned last
    held,             \* the keys the HID report holds pressed
    risen             \* history: times the monitored wire was put back to
                      \* GND after the first touch of the window was counted

vars == << pc, ip, scriptRun, d7, d10, flips, bus, lcdAvailable,
           payloadExecuted, led, lcd, shown, win10Mode, keyboardBegun,
           out, errorNum, blinkStage, blinkI, blinkMs, now, startTime,
           initialWaitSec, touchWaitSec,
           windowStart, currentWait, extraDowns, wasConnected, sawArmed,
           waited, resolveD7, resolveD10, dispatches, waitPolls, harness,
           keepHist, lastPollD7, heldPolls, holdDowns, spent, edgeAt,
           highCount, lowCount, hwResult, flashCount, serial,
           longBlinks, shortBlinks, blinkPause,
           codeA, codeB, infoA, infoB, cycleA, cycleB,
           lastSecond, ledState, sinceBlink, allPressed, cancels,
           demoMode, calls, hidCalls, durationMs, intervalMs, key,
           spamCount, held, risen >>

envVars == << d7, d10, flips >>
clockVars == << now, startTime >>
adjVars == << initialWaitSec, touchWaitSec, windowStart, currentWait,
             extraDowns, wasConnected >>
adjHist == << lastPollD7, heldPolls, holdDowns, spent, edgeAt >>
gateHist == << sawArmed, waited, resolveD7, resolveD10, dispatches,
              waitPolls >>
tableVars == << codeA, codeB, infoA, infoB, cycleA, cycleB >>
buttonVars == << lastSecond, ledState, sinceBlink, allPressed, cancels >>
utilVars == << demoMode, calls, hidCalls, durationMs, intervalMs, key,
           spamCount >>
\* what no step of the dual-wire firmware changes
hidVars == << held >>
edgeHist == << risen >>
modeVars == << harness, keepHist, tableVars, buttonVars, utilVars, hidVars,
              edgeHist >>
blinkHist == << longBlinks, shortBlinks, blinkPause >>
reportVars == << flashCount, serial >>
haltVars == << errorNum, blinkStage, blinkI, blinkMs, blinkHist,
              reportVars >>
hwVars == << highCount, lowCount, hwResult >>
flagVars == << lcdAvailable, payloadExecuted, win10Mode, keyboardBegun,
               haltVars, hwVars, bus, modeVars, shown >>

Min(a, b) == IF a < b THEN a ELSE b

\* ------------------------------------------------------------------------
\* Safety wire check functions
\* ------------------------------------------------------------------------
isSafety1Off(p7) == p7 = "HIGH"

isSafety2Off(p10) == p10 = "HIGH"

\* mutant: the polarity of the primary wire is inverted
isSafetyOff_Inverted(p7) == p7 = "LOW"

isSafetyOff(p7) == isSafety1Off(p7)

isWin10Mode(p7, p10) == isSafety1Off(p7) /\ isSafety2Off(p10)

\* the three-valued operating mode the two predicates above encode
OperatingMode(p7, p10) ==
    IF ~isSafetyOff(p7) THEN "Locked"
    ELSE IF isWin10Mode(p7, p10) THEN "ModeB" ELSE "ModeA"

\* ------------------------------------------------------------------------
\* The two scripts as the sequence of statements the code executes
\* ------------------------------------------------------------------------
Rep(n, s) == [i \in 1..(n * Len(s)) |-> s[((i - 1) % Len(s)) + 1]]

Begin == [op |-> "begin"]
Show(a, b) == [op |-> "show", l1 |-> a, l2 |-> b]
Key(k, d) == [op |-> "key", key |-> k, ms |-> d]
Type(cs, d) == [op |-> "type", chars |-> cs, ms |-> d]
Wait(d) == [op |-> "wait", ms |-> d, count |-> -1]
\* for (i = n; i > 0; i--) { print i on the display; delay(1000); }
Countdown(n) ==
    [j \in 1..n |-> [op |-> "wait", ms |-> 1000, count |-> n + 1 - j]]
Spam(k) == [op |-> "spam", key |-> k]
Adjust(i, t, title) ==
    [op |-> "adjust", initialWaitSec |-> i, touchWaitSec |-> t, l1 |-> title]
Complete == [op |-> "complete"]

Password == << "l", "s", "3", "g", "t", "1" >>

\* mutant: the fixed run of DOWN is one short
BIOSScript_Down4 ==
    << Begin,
       Show("ENTERING BIOS", "Spamming F2..."), Spam("F2"),
       Show("BIOS LOADING", "Waiting...") >>
    \o Countdown(5)
    \o << Show("NAVIGATING", "Down 5...") >>
    \o Rep(4, << Key("DOWN", 300) >>)
    \o << Wait(300),
          Adjust(10, 5, "BIOS ADJUST"),
          Show("BIOS NAV", "Selecting..."),
          Key("ENTER", 500), Key("DOWN", 300), Key("TAB", 300),
          Key("ENTER", 500),
          Show("OLD PASSWORD", "Typing..."),
          Type(Password, 200), Key("TAB", 300), Key("ENTER", 500),
          Show("CONFIRMING", "Password..."),
          Key("TAB", 300), Type(Password, 200) >>
    \o Rep(3, << Key("TAB", 300) >>)
    \o << Key("ENTER", 500),
          Show("SAVING", "Confirming...") >>
    \o Rep(2, << Key("TAB", 300) >>)
    \o << Key("ENTER", 500),
          Show("PASS REMOVED!", "Rebooting..."),
          Complete >>

BIOSScript ==
    << Begin,
       Show("ENTERING BIOS", "Spamming F2..."), Spam("F2"),
       Show("BIOS LOADING", "Waiting...") >>
    \o Countdown(5)
    \o << Show("NAVIGATING", "Down 5...") >>
    \o Rep(5, << Key("DOWN", 300) >>)
    \o << Wait(300),
          Adjust(10, 5, "BIOS ADJUST"),
          Show("BIOS NAV", "Selecting..."),
          Key("ENTER", 500), Key("DOWN", 300), Key("TAB", 300),
          Key("ENTER", 500),
          Show("OLD PASSWORD", "Typing..."),
          Type(Password, 200), Key("TAB", 300), Key("ENTER", 500),
          Show("CONFIRMING", "Password..."),
          Key("TAB", 300), Type(Password, 200) >>
    \o Rep(3, << Key("TAB", 300) >>)
    \o << Key("ENTER", 500),
          Show("SAVING", "Confirming...") >>
    \o Rep(2, << Key("TAB", 300) >>)
    \o << Key("ENTER", 500),
          Show("PASS REMOVED!", "Rebooting..."),
          Complete >>

\* mutant: the gesture lacks its confirming ENTER
Gesture_Unconfirmed(goingDown) ==
    << Key("TAB", 400), Key("RIGHT", 400), Key("ENTER", 500),
       Key("TAB", 300),
       Key(IF goingDown THEN "DOWN" ELSE "UP", 300) >>

\* one removal gesture followed by the row move of the sweep
Gesture(goingDown) ==
    << Key("TAB", 400), Key("RIGHT", 400), Key("ENTER", 500),
       Key("TAB", 300), Key("ENTER", 600),
       Key(IF goingDown THEN "DOWN" ELSE "UP", 300) >>

\* re-home to the opposite end after a sweep
Rehome(goingDown) ==
    IF goingDown
    THEN Rep(10, << Key("UP", 60) >>) \o << Key("DOWN", 100) >>
    ELSE Rep(10, << Key("DOWN", 60) >>)

Sweep(sweep) ==
    LET goingDown == (sweep % 2 = 0)
    IN  << Show("SWEEP " \o ToString(sweep + 1) \o "/" \o ToString(MAX_SWEEPS)
                 \o (IF goingDown THEN " DN" ELSE " UP"), "Deleting...") >>
        \o Rep(SWEEP_POSITIONS, Gesture(goingDown))
        \o Rehome(goingDown)
        \o << Wait(200) >>

RECURSIVE Sweeps(_)
Sweeps(sweep) ==
    IF sweep < MAX_SWEEPS THEN Sweep(sweep) \o Sweeps(sweep + 1) ELSE << >>

Win10Script ==
    << Begin,
       Show("BOOT MENU", "Spamming F12..."), Spam("F12"),
       Show("BOOT MENU", "Down 1..."),
       Key("DOWN", 300),
       Adjust(10, 5, "USB ADJUST"),
       Show("BOOT MENU", "Selecting..."),
       Key("ENTER", 0),
       Show("LOADING", "Win Setup...") >>
    \o Countdown(30)
    \o << Show("SETUP", "Tab 3...") >>
    \o Rep(3, << Key("TAB", 200) >>)
    \o << Show("SETUP", "Enter 2..."),
          Key("ENTER", 300), Key("ENTER", 0),
          Show("SETUP", "Waiting...") >>
    \o Countdown(30)
    \o << Show("SETUP", "License..."),
          Key("SPACE", 300), Key("ENTER", 300), Key("DOWN", 300),
          Key("ENTER", 2000),
          Show("WIPING DISK", "Smart delete..."),
          Wait(2000) >>
    \o Rep(10, << Key("UP", 80) >>)
    \o << Wait(200), Key("DOWN", 200) >>
    \o Sweeps(0)
    \o << Show("FINALIZING", "Starting...") >>
    \o Rep(10, << Key("UP", 80) >>)
    \o << Key("DOWN", 300) >>
    \o Rep(6, << Key("TAB", 120) >>)
    \o << Key("ENTER", 800), Key("ENTER", 500),
          Show("DONE!", "Install started"),
          Complete >>

\* pressCombo(modifier, key); delay(ms)
Combo(m, k, d) == [op |-> "combo", modifier |-> m, key |-> k, ms |-> d]
\* the end of executePayload
Done == [op |-> "done"]

\* the custom character 0 (arrow) showProgress writes before the message
ArrowChar == "\\x00"

\* showProgress(current, total, title, message)
Progress(current, total, title, message) ==
    Show(title \o " [" \o ToString(current) \o "/" \o ToString(total) \o "]",
         ArrowChar \o " " \o message)

executeBootMenuPhase ==
    << Show("OPENING BIOS", "Spamming F12..."), Spam("F12"),
       Show("BOOT MENU", "Waiting...") >>
    \o Countdown(3)
    \o << Show("BOOT MENU", "Selecting USB..") >>
    \o Rep(BOOT_MENU_POSITION, << Key("DOWN", 0) >>)
    \o << Wait(500), Key("ENTER", 0) >>

waitForWindowsSetup ==
    << Show("WAITING", "Win Setup..") >> \o Countdown(WIN_SETUP_WAIT)

executeWindowsSetup ==
    << Progress(1, 5, "SETUP", "Language"), Wait(SCREEN_DELAY),
       Key("ENTER", 0),
       Progress(2, 5, "SETUP", "Install Now"), Wait(SCREEN_DELAY),
       Key("ENTER", 0),
       Progress(3, 5, "SETUP", "Skip Key"), Wait(SCREEN_DELAY),
       Key("TAB", 200), Key("ENTER", 0),
       Progress(4, 5, "SETUP", "License"), Wait(SCREEN_DELAY),
       Key(" ", 200), Key("TAB", 200), Key("ENTER", 0),
       Progress(5, 5, "SETUP", "Custom Install"), Wait(SCREEN_DELAY),
       Key("TAB", 200), Key("ENTER", 0) >>

\* the attempt number printed over line 2 is not kept
executePartitionWipe ==
    << Show("WIPING DISK", "Deleting..."), Wait(SCREEN_DELAY) >>
    \o Rep(DELETE_ATTEMPTS,
           << Key("DOWN", 300), Combo("ALT", "d", 500),
              Key("ENTER", PARTITION_DELAY),
              Key("ENTER", PARTITION_DELAY) >>)

startInstallation ==
    << Show("STARTING", "Installing..."), Wait(SCREEN_DELAY),
       Key("DOWN", 300) >>
    \o Rep(5, << Key("TAB", 100) >>)
    \o << Key("ENTER", 2000), Key("ENTER", 0) >>

\* mutant: the disk is wiped before the installer has been navigated
WipeScript_WipeFirst ==
    << Show("\\x03 ARMED \\x03", "Executing..."), Begin,
       Show("HID KEYBOARD", "Initialized OK"), Wait(500),
       Show("PHASE 1/5", "Boot Menu..."), Wait(300) >>
    \o executeBootMenuPhase
    \o << Show("PHASE 2/5", "Waiting..."), Wait(300) >>
    \o waitForWindowsSetup
    \o << Show("PHASE 4/5", "Wiping Disk..."), Wait(300) >>
    \o executePartitionWipe
    \o << Show("PHASE 3/5", "Win Setup Nav"), Wait(300) >>
    \o executeWindowsSetup
    \o << Show("PHASE 5/5", "Installing..."), Wait(300) >>
    \o startInstallation
    \o << Done >>

\* executePayload of the button firmware; the display is there whenever
\* it runs, so that every showStatus of it writes
WipeScript ==
    << Show("\\x03 ARMED \\x03", "Executing..."), Begin,
       Show("HID KEYBOARD", "Initialized OK"), Wait(500),
       Show("PHASE 1/5", "Boot Menu..."), Wait(300) >>
    \o executeBootMenuPhase
    \o << Show("PHASE 2/5", "Waiting..."), Wait(300) >>
    \o waitForWindowsSetup
    \o << Show("PHASE 3/5", "Win Setup Nav"), Wait(300) >>
    \o executeWindowsSetup
    \o << Show("PHASE 4/5", "Wiping Disk..."), Wait(300) >>
    \o executePartitionWipe
    \o << Show("PHASE 5/5", "Installing..."), Wait(300) >>
    \o startInstallation
    \o << Done >>

Script ==
    CASE scriptRun = "win10" -> Win10Script
      [] scriptRun = "wipe" -> WipeScript
      [] OTHER -> BIOSScript

Cur == Script[ip]

AtStep(o) == pc = "script" /\ ip <= Len(Script) /\ Cur.op = o

\* ------------------------------------------------------------------------
\* Clock and keyboard helpers
\* ------------------------------------------------------------------------
MaxInt32 == 2147483647

\* a + d on unsigned long, d a small non-negative number
Add32(a, d) ==
    IF a > MaxInt32 - d THEN ((a - MaxInt32) + (d - MaxInt32)) - 2 ELSE a + d

\* a - b on unsigned long
Sub32(a, b) ==
    IF a >= 0 /\ b < 0 /\ a > MaxInt32 + b
    THEN ((a - MaxInt32) + ((0 - MaxInt32) - b)) - 2
    ELSE IF a < 0 /\ b > 0 /\ a < (b - MaxInt32) - 1
    THEN ((a + MaxInt32) + (MaxInt32 - b)) + 2
    ELSE a - b

\* a >= b on unsigned long
GeU32(a, b) == IF (a < 0) = (b < 0) THEN a >= b ELSE a < 0

\* a / 1000 on unsigned long; 2^32 = 4294967 * 1000 + 296
Div1000U32(a) ==
    IF a >= 0 THEN a \div 1000 ELSE 4294967 + ((a + 296) \div 1000)

\* mutant: a counter that reads below the start value counts as no time
Elapsed_NoWrap(t, start) == IF GeU32(t, start) THEN Sub32(t, start) ELSE 0

\* unsigned 32-bit subtraction millis() - start
Elapsed(t, start) == Sub32(t, start)

\* duration of pressKey(): hold, release, inter-key delay
PressKeyTime == KEY_HOLD_DELAY + KEY_DELAY

INITIAL_WAIT == initialWaitSec * 1000

\* mutant: the wait after a touch is computed from the initial wait
TOUCH_WAIT_Initial == initialWaitSec * 1000

TOUCH_WAIT == touchWaitSec * 1000

\* mutant: the window closes one poll late
WindowClosed_Late(elapsed, wait) == GeU32(elapsed, wait) /\ elapsed # wait

\* the loop test of dynamicDownAdjustment: time's up
WindowClosed(elapsed, wait) == GeU32(elapsed, wait)

\* mutant: the test is on the level, not on the edge
EdgeDetected_Level(isConnected, was) == isConnected

\* the edge test of dynamicDownAdjustment
EdgeDetected(isConnected, was) == isConnected /\ ~was

\* mutant: the previous sample is never remembered
Remember_Never(isConnected) == FALSE

\* wasConnected = isConnected
Remember(isConnected) == isConnected

\* the loop test of the boot-key spam loop
SpamRunning(t, start) == ~GeU32(Elapsed(t, start), BOOT_SPAM_DURATION)

\* ------------------------------------------------------------------------
\* Initial states
\* ------------------------------------------------------------------------
InitCommon ==
    /\ ip = 1
    /\ scriptRun = "none"
    /\ d7 \in {"LOW", "HIGH"}
    /\ d10 \in {"LOW", "HIGH"}
    /\ flips = 0
    /\ payloadExecuted = FALSE
    /\ led = "OFF"
    /\ win10Mode = FALSE
    /\ keyboardBegun = FALSE
    /\ out = << >>
    /\ blinkStage = "top"
    /\ blinkI = 0
    /\ blinkMs = 0
    /\ now = 0
    /\ startTime = 0
    /\ windowStart = 0
    /\ currentWait = 0
    /\ extraDowns = 0
    /\ wasConnected = FALSE
    /\ sawArmed = FALSE
    /\ waited = FALSE
    /\ resolveD7 = "unread"
    /\ resolveD10 = "unread"
    /\ dispatches = 0
    /\ waitPolls = 0
    /\ held = {}
    /\ risen = 0
    /\ lastPollD7 = "none"
    /\ heldPolls = 0
    /\ holdDowns = 0
    /\ spent = 0
    /\ edgeAt = 0
    /\ shown = -1
    /\ highCount = 0
    /\ lowCount = 0
    /\ flashCount = 0
    /\ serial = << >>
    /\ longBlinks = 0
    /\ shortBlinks = 0
    /\ blinkPause = 0

\* getErrorInfo has not been called
TableIdle ==
    /\ codeA = 0
    /\ codeB = 0
    /\ infoA = [shortMsg |-> "", detailMsg |-> "", ledBlinks |-> 0]
    /\ infoB = [shortMsg |-> "", detailMsg |-> "", ledBlinks |-> 0]
    /\ cycleA = << >>
    /\ cycleB = << >>

\* the button firmware is not running
ButtonIdle ==
    /\ lastSecond = -1
    /\ ledState = FALSE
    /\ sinceBlink = 0
    /\ allPressed = TRUE
    /\ cancels = 0

\* no utility is called on its own; the build is the one of config.h line 19
UtilIdle ==
    /\ demoMode = (DEMO_MODE = 1)
    /\ calls = 0
    /\ hidCalls = 0
    /\ durationMs = 0
    /\ intervalMs = 0
    /\ key = ""
    /\ spamCount = 0

\* power-up of the device: globals as initialised at lines 34-35
Init ==
    /\ InitCommon
    /\ TableIdle
    /\ ButtonIdle
    /\ UtilIdle
    /\ pc = "boot"
    /\ bus \in BusConfigs
    /\ lcdAvailable = FALSE
    /\ lcd = << "", "" >>
    /\ initialWaitSec = 0
    /\ touchWaitSec = 0
    /\ harness = FALSE
    /\ keepHist = FALSE
    /\ errorNum = 0
    /\ hwResult = -1

\* dynamicDownAdjustment called on its own with small arguments
InitAdjust ==
    /\ InitCommon
    /\ TableIdle
    /\ ButtonIdle
    /\ UtilIdle
    /\ pc = "call"
    /\ bus = {LCD_ADDRESS}
    /\ lcdAvailable \in BOOLEAN
    /\ lcd = << "", "" >>
    /\ initialWaitSec \in 1..MaxWaitSec
    /\ touchWaitSec \in 1..MaxWaitSec
    /\ harness = TRUE
    /\ keepHist = TRUE
    /\ errorNum = 0
    /\ hwResult = -1

\* dynamicDownAdjustment called on its own, the history of the call not kept
InitAdjustFree ==
    /\ InitCommon
    /\ TableIdle
    /\ ButtonIdle
    /\ UtilIdle
    /\ pc = "call"
    /\ bus = {LCD_ADDRESS}
    /\ lcdAvailable \in BOOLEAN
    /\ lcd = << "", "" >>
    /\ initialWaitSec \in 1..MaxWaitSec
    /\ touchWaitSec \in 1..MaxWaitSec
    /\ harness = TRUE
    /\ keepHist = FALSE
    /\ errorNum = 0
    /\ hwResult = -1

\* ------------------------------------------------------------------------
\* The environment: a wire is removed or put back
\* ------------------------------------------------------------------------
Toggle(v) == IF v = "LOW" THEN "HIGH" ELSE "LOW"

EnvFlip ==
    /\ flips < MaxFlips
    /\ flips' = flips + 1
    /\ \/ d7' = Toggle(d7) /\ d10' = d10
       \/ d10' = Toggle(d10) /\ d7' = d7
    /\ UNCHANGED << pc, ip, scriptRun, led, lcd, out, clockVars, adjVars,
                    adjHist, gateHist, flagVars >>

\* a wire is moved, in the runs with few changes of the inputs
EnvChange == flips < MaxInputChanges /\ EnvFlip

\* the monitored wire is touched to GND or lifted, any number of times
EnvTouch ==
    /\ d7' = Toggle(d7)
    /\ UNCHANGED << d10, flips, pc, ip, scriptRun, led, lcd, out, clockVars,
                    adjVars, adjHist, gateHist, flagVars >>

\* the monitored wire is touched to GND or lifted a few times; a touch made
\* once the window has counted its first one is recorded
EnvRetouch ==
    /\ flips < MaxFlips
    /\ flips' = flips + 1
    /\ d7' = Toggle(d7)
    /\ risen' = IF pc = "adjust" /\ extraDowns >= 1 /\ d7 = "HIGH"
               THEN risen + 1 ELSE risen
    /\ UNCHANGED << d10, pc, ip, scriptRun, led, lcd, out, clockVars,
                    adjVars, adjHist, gateHist, lcdAvailable,
                    payloadExecuted, win10Mode, keyboardBegun, haltVars,
                    hwVars, bus, harness, keepHist, tableVars, buttonVars,
                    utilVars, hidVars, shown >>

\* ------------------------------------------------------------------------
\* setup(): hardware checks
\* ------------------------------------------------------------------------
\* initDisplay(): the display acknowledges at the configured address
initDisplay(b) == LCD_ADDRESS \in b

\* the address range setup() scans when the display is not found
ScanRange == 32..63

\* mutant: setup() goes on without the display
SetupInitDisplay_Tolerant ==
    /\ pc = "boot"
    /\ lcdAvailable' = initDisplay(bus)
    /\ pc' = "startup"
    /\ UNCHANGED << ip, scriptRun, envVars, led, lcd, out, clockVars,
                    adjVars, adjHist, gateHist, payloadExecuted, win10Mode,
                    keyboardBegun, haltVars, hwVars, bus, modeVars, shown >>

SetupInitDisplay ==
    /\ pc = "boot"
    /\ lcdAvailable' = initDisplay(bus)
    /\ pc' = IF initDisplay(bus) THEN "startup" ELSE "diagnose"
    /\ UNCHANGED << ip, scriptRun, envVars, led, lcd, out, clockVars,
                    adjVars, adjHist, gateHist, payloadExecuted, win10Mode,
                    keyboardBegun, haltVars, hwVars, bus, modeVars, shown >>

\* the number setup() hands to blinkErrorPattern when the display is not
\* found on bus b: 1 when the scan finds nothing, 2 when it finds a device
DiagnosedError(b) == IF (b \cap ScanRange) = {} THEN 1 ELSE 2

SetupDiagnose ==
    /\ pc = "diagnose"
    /\ LET foundAny == (bus \cap ScanRange) # {}
       IN  /\ errorNum' = DiagnosedError(bus)
           /\ serial' = IF ~foundAny
                        THEN << "ERROR E01: LCD NOT CONNECTED" >>
                        ELSE << "ERROR E02: WRONG LCD ADDRESS" >>
    /\ pc' = "halt"
    /\ UNCHANGED << ip, scriptRun, envVars, led, lcd, out, clockVars,
                    adjVars, adjHist, gateHist, lcdAvailable,
                    payloadExecuted, win10Mode, keyboardBegun, bus, modeVars,
                    shown, blinkStage, blinkI, blinkMs, blinkHist,
                    flashCount, hwVars >>

\* ------------------------------------------------------------------------
\* blinkErrorPattern
\* ------------------------------------------------------------------------
LONG_BLINK == 400
SHORT_BLINK == 150
DIGIT_PAUSE == 500
CYCLE_PAUSE == 2000

\* the locals of blinkErrorPattern(errorNum)
Tens(n) == n \div 10

Ones(n) == n % 10

\* mutant: a ones digit of 0 is not replaced by ten blinks
BlinkCount_NoTen(n) == IF Tens(n) > 0 THEN Ones(n) ELSE n

BlinkCount(n) ==
    LET c == IF Tens(n) > 0 THEN Ones(n) ELSE n
    IN  IF c = 0 THEN 10 ELSE c

\* the times, in ms, the LED is lit in one pass of the while (true) loop of
\* blinkErrorPattern(n), in order
CyclePulses(n) ==
    [i \in 1..Tens(n) |-> LONG_BLINK]
    \o [i \in 1..BlinkCount(n) |-> SHORT_BLINK]

\* one step of a for loop of blinkErrorPattern: the LED is lit for onMs
\* (stage -> litStage), or put out (litStage -> stage), or the loop ends and
\* the delay that follows it is executed
BlinkLoop(count, onMs, stage, litStage, pauseMs, nextStage) ==
    IF blinkStage = litStage
    THEN /\ led' = "OFF"
         /\ blinkI' = blinkI + 1
         /\ blinkStage' = stage
         /\ UNCHANGED << blinkMs, blinkHist >>
    ELSE IF blinkI < count
    THEN /\ led' = "ON"
         /\ blinkMs' = onMs
         /\ blinkStage' = litStage
         /\ longBlinks' = longBlinks + (IF onMs = LONG_BLINK THEN 1 ELSE 0)
         /\ shortBlinks' = shortBlinks + (IF onMs = SHORT_BLINK THEN 1 ELSE 0)
         /\ UNCHANGED << blinkI, blinkPause >>
    ELSE /\ blinkStage' = nextStage
         /\ blinkI' = 0
         /\ blinkPause' = pauseMs
         /\ UNCHANGED << led, blinkMs, longBlinks, shortBlinks >>

\* blinkErrorPattern(): one step of its while (true) loop; it never returns
BlinkErrorPattern ==
    /\ pc = "halt"
    /\ CASE blinkStage = "top" ->
               /\ blinkStage' = IF Tens(errorNum) > 0 THEN "tens" ELSE "ones"
               /\ blinkI' = 0
               /\ longBlinks' = 0
               /\ shortBlinks' = 0
               /\ blinkPause' = 0
               /\ UNCHANGED << led, blinkMs >>
         [] blinkStage \in {"tens", "tens_lit"} ->
               BlinkLoop(Tens(errorNum), LONG_BLINK, "tens", "tens_lit",
                         DIGIT_PAUSE, "ones")
         [] blinkStage \in {"ones", "ones_lit"} ->
               BlinkLoop(BlinkCount(errorNum), SHORT_BLINK, "ones",
                         "ones_lit", CYCLE_PAUSE, "top")
    /\ UNCHANGED << pc, ip, scriptRun, envVars, lcd, out, clockVars,
                    adjVars, adjHist, gateHist, lcdAvailable,
                    payloadExecuted, win10Mode, keyboardBegun, errorNum, bus,
                    modeVars, shown, reportVars, hwVars >>

SetupStartup ==
    /\ pc = "startup"
    /\ lcd' = << "MULTI-TOOL", "Checking..." >>
    /\ pc' = "gate"
    /\ UNCHANGED << ip, scriptRun, envVars, led, out, clockVars, adjVars,
                    adjHist, gateHist, flagVars >>

\* ------------------------------------------------------------------------
\* setup(): the arming wait
\* ------------------------------------------------------------------------
GateCheck ==
    /\ pc = "gate"
    /\ sawArmed' = (sawArmed \/ d7 = "HIGH")
    /\ IF isSafetyOff(d7)
       THEN /\ pc' = "resolve_d7"
            /\ waited' = waited
            /\ lcd' = lcd
       ELSE /\ pc' = "wait_on"
            /\ waited' = TRUE
            /\ lcd' = IF lcdAvailable
                      THEN << "SAFETY ON", "Remove D7 wire" >> ELSE lcd
    /\ UNCHANGED << ip, scriptRun, envVars, led, out, clockVars, adjVars,
                    adjHist, resolveD7, resolveD10, dispatches, waitPolls,
                    flagVars >>

WaitBlinkOn ==
    /\ pc = "wait_on"
    /\ led' = "ON"
    /\ pc' = "wait_off"
    /\ UNCHANGED << ip, scriptRun, envVars, lcd, out, clockVars, adjVars,
                    adjHist, gateHist, flagVars >>

\* mutant: the wait polls the mode-select wire instead of the primary wire
WaitPoll_WrongPin ==
    /\ pc = "wait_off"
    /\ led' = "OFF"
    /\ sawArmed' = (sawArmed \/ d7 = "HIGH")
    /\ IF isSafety2Off(d10)
       THEN /\ pc' = "resolve_d7"
            /\ waitPolls' = 0
       ELSE /\ pc' = "wait_on"
            /\ waitPolls' = Min(waitPolls + 1, MaxWaitPolls)
    /\ UNCHANGED << ip, scriptRun, envVars, lcd, out, clockVars, adjVars,
                    adjHist, waited, resolveD7, resolveD10, dispatches,
                    flagVars >>

\* mutant: the wait gives up after MaxWaitPolls polls
WaitPoll_Timeout ==
    /\ pc = "wait_off"
    /\ led' = "OFF"
    /\ sawArmed' = (sawArmed \/ d7 = "HIGH")
    /\ IF isSafetyOff(d7) \/ waitPolls = MaxWaitPolls
       THEN /\ pc' = "resolve_d7"
            /\ waitPolls' = 0
       ELSE /\ pc' = "wait_on"
            /\ waitPolls' = Min(waitPolls + 1, MaxWaitPolls)
    /\ UNCHANGED << ip, scriptRun, envVars, lcd, out, clockVars, adjVars,
                    adjHist, waited, resolveD7, resolveD10, dispatches,
                    flagVars >>

\* mutant: the wait gives up after MaxWaitPolls polls and halts with the
\* boot timeout code
WaitPoll_GivesUp ==
    /\ pc = "wait_off"
    /\ led' = "OFF"
    /\ sawArmed' = (sawArmed \/ d7 = "HIGH")
    /\ IF isSafetyOff(d7)
       THEN /\ pc' = "resolve_d7"
            /\ waitPolls' = 0
            /\ errorNum' = errorNum
       ELSE IF waitPolls = MaxWaitPolls
       THEN /\ pc' = "halt"
            /\ waitPolls' = waitPolls
            /\ errorNum' = 20
       ELSE /\ pc' = "wait_on"
            /\ waitPolls' = Min(waitPolls + 1, MaxWaitPolls)
            /\ errorNum' = errorNum
    /\ UNCHANGED << ip, scriptRun, envVars, lcd, out, clockVars, adjVars,
                    adjHist, waited, resolveD7, resolveD10, dispatches,
                    lcdAvailable, payloadExecuted, win10Mode, keyboardBegun,
                    blinkStage, blinkI, blinkMs, blinkHist, reportVars,
                    hwVars, bus, modeVars, shown >>

WaitPoll ==
    /\ pc = "wait_off"
    /\ led' = "OFF"
    /\ sawArmed' = (sawArmed \/ d7 = "HIGH")
    /\ IF isSafetyOff(d7)
       THEN /\ pc' = "resolve_d7"
            /\ waitPolls' = 0
       ELSE /\ pc' = "wait_on"
            /\ waitPolls' = Min(waitPolls + 1, MaxWaitPolls)
    /\ UNCHANGED << ip, scriptRun, envVars, lcd, out, clockVars, adjVars,
                    adjHist, waited, resolveD7, resolveD10, dispatches,
                    flagVars >>

\* ------------------------------------------------------------------------
\* setup(): mode resolution and dispatch
\* ------------------------------------------------------------------------
\* mutant: with D7 read LOW the local is left without a value
ResolveD7_Unassigned ==
    /\ pc = "resolve_d7"
    /\ resolveD7' = d7
    /\ IF isSafety1Off(d7)
       THEN pc' = "resolve_d10" /\ win10Mode' = win10Mode
       ELSE pc' = "show_mode" /\ win10Mode' \in BOOLEAN
    /\ UNCHANGED << ip, scriptRun, envVars, led, lcd, out, clockVars,
                    adjVars, adjHist, sawArmed, waited, resolveD10, dispatches,
                    waitPolls, lcdAvailable, payloadExecuted, keyboardBegun,
                    haltVars, hwVars, bus, modeVars, shown >>

\* isWin10Mode(), left operand of &&: read D7
ResolveD7 ==
    /\ pc = "resolve_d7"
    /\ resolveD7' = d7
    /\ IF isSafety1Off(d7)
       THEN pc' = "resolve_d10" /\ win10Mode' = win10Mode
       ELSE pc' = "show_mode" /\ win10Mode' = FALSE
    /\ UNCHANGED << ip, scriptRun, envVars, led, lcd, out, clockVars,
                    adjVars, adjHist, sawArmed, waited, resolveD10, dispatches,
                    waitPolls, lcdAvailable, payloadExecuted, keyboardBegun,
                    haltVars, hwVars, bus, modeVars, shown >>

\* isWin10Mode(), right operand of &&: read D10
ResolveD10 ==
    /\ pc = "resolve_d10"
    /\ resolveD10' = d10
    /\ win10Mode' = isWin10Mode(resolveD7, d10)
    /\ pc' = "show_mode"
    /\ UNCHANGED << ip, scriptRun, envVars, led, lcd, out, clockVars,
                    adjVars, adjHist, sawArmed, waited, resolveD7, dispatches,
                    waitPolls, lcdAvailable, payloadExecuted, keyboardBegun,
                    haltVars, hwVars, bus, modeVars, shown >>

ShowMode ==
    /\ pc = "show_mode"
    /\ lcd' = IF win10Mode THEN << "MODE: WIN10", "Install ready" >>
                           ELSE << "MODE: BIOS", "Password ready" >>
    /\ pc' = "armed"
    /\ UNCHANGED << ip, scriptRun, envVars, led, out, clockVars, adjVars,
                    adjHist, gateHist, flagVars >>

ArmedBlink ==
    /\ pc = "armed"
    /\ lcd' = IF lcdAvailable THEN << "!! ARMED !!", "Executing..." >> ELSE lcd
    /\ led' = "OFF"
    /\ pc' = "dispatch"
    /\ UNCHANGED << ip, scriptRun, envVars, out, clockVars, adjVars,
                    adjHist, gateHist, flagVars >>

\* mutant: the two branches of the dispatch are swapped
Selected_Swapped(mode) == IF mode THEN "bios" ELSE "win10"

\* the script the if at line 1359 selects
Selected(mode) == IF mode THEN "win10" ELSE "bios"

Dispatch ==
    /\ pc = "dispatch"
    /\ scriptRun' = Selected(win10Mode)
    /\ ip' = 1
    /\ pc' = "script"
    /\ dispatches' = dispatches + 1
    /\ UNCHANGED << envVars, led, lcd, out, clockVars, adjVars, adjHist,
                    sawArmed, waited, resolveD7, resolveD10, waitPolls,
                    flagVars >>

\* ------------------------------------------------------------------------
\* The scripts: one action per kind of statement
\* ------------------------------------------------------------------------
\* conversion of a non-negative value to the 16-bit int of the target
ToInt16(x) ==
    LET m == x % 65536 IN IF m >= 32768 THEN m - 65536 ELSE m

\* initKeyboard()
ScriptBegin ==
    /\ AtStep("begin")
    /\ keyboardBegun' = TRUE
    /\ ip' = ip + 1
    /\ UNCHANGED << pc, scriptRun, envVars, led, lcd, out, clockVars,
                    adjVars, adjHist, gateHist, lcdAvailable,
                    payloadExecuted, win10Mode, haltVars, hwVars, bus,
                    modeVars,
                    shown >>

\* if (lcdAvailable) showStatus(l1, l2)
ScriptShow ==
    /\ AtStep("show")
    /\ lcd' = IF lcdAvailable THEN << Cur.l1, Cur.l2 >> ELSE lcd
    /\ ip' = ip + 1
    /\ UNCHANGED << pc, scriptRun, envVars, led, out, clockVars, adjVars,
                    adjHist, gateHist, flagVars >>

\* mutant: the script gives up when the primary wire is found back in place
ScriptKey_Interlock ==
    /\ AtStep("key")
    /\ IF d7 = "LOW"
       THEN pc' = "finish" /\ UNCHANGED << out, ip >>
       ELSE pc' = pc /\ out' = Append(out, Cur.key) /\ ip' = ip + 1
    /\ UNCHANGED << scriptRun, envVars, led, lcd, clockVars, adjVars,
                    adjHist, gateHist, flagVars >>

\* pressKey(key); delay(ms)
ScriptKey ==
    /\ AtStep("key")
    /\ out' = Append(out, Cur.key)
    /\ ip' = ip + 1
    /\ UNCHANGED << pc, scriptRun, envVars, led, lcd, clockVars, adjVars,
                    adjHist, gateHist, flagVars >>

\* typeString(chars); delay(ms)
ScriptType ==
    /\ AtStep("type")
    /\ out' = out \o Cur.chars
    /\ ip' = ip + 1
    /\ UNCHANGED << pc, scriptRun, envVars, led, lcd, clockVars, adjVars,
                    adjHist, gateHist, flagVars >>

\* delay(ms), after the countdown number when the delay is in a countdown
ScriptWait ==
    /\ AtStep("wait")
    /\ shown' = IF lcdAvailable /\ Cur.count >= 0 THEN Cur.count ELSE shown
    /\ ip' = ip + 1
    /\ UNCHANGED << pc, scriptRun, envVars, led, lcd, out, clockVars,
                    adjVars, adjHist, gateHist, lcdAvailable,
                    payloadExecuted, win10Mode, keyboardBegun, haltVars,
                    hwVars, bus, modeVars >>

\* unsigned long startTime = millis();
SpamStart ==
    /\ AtStep("spam")
    /\ \E t \in ClockStarts : startTime' = t /\ now' = t
    /\ pc' = "spam"
    /\ UNCHANGED << ip, scriptRun, envVars, led, lcd, out, adjVars, adjHist,
                    gateHist, flagVars >>

\* one evaluation of the while condition of the spam loop and, when it
\* holds, one iteration of its body
SpamIter ==
    /\ pc = "spam"
    /\ IF SpamRunning(now, startTime)
       THEN LET after == Add32(now, PressKeyTime)
                remaining ==
                    ToInt16(Div1000U32(Sub32(BOOT_SPAM_DURATION,
                                             Elapsed(after, startTime))))
            IN  /\ out' = Append(out, Cur.key)
                /\ now' = after
                /\ shown' = IF lcdAvailable THEN remaining ELSE shown
                /\ UNCHANGED << pc, ip, startTime >>
       ELSE /\ pc' = "script"
            /\ ip' = ip + 1
            /\ now' = 0
            /\ startTime' = 0
            /\ UNCHANGED << out, shown >>
    /\ UNCHANGED << scriptRun, envVars, led, lcd, adjVars, adjHist,
                    gateHist, lcdAvailable, payloadExecuted, win10Mode,
                    keyboardBegun, haltVars, hwVars, bus, modeVars >>

\* int extraDowns = dynamicDownAdjustment(10, 5, title): the call
ScriptCall ==
    /\ AtStep("adjust")
    /\ initialWaitSec' = Cur.initialWaitSec
    /\ touchWaitSec' = Cur.touchWaitSec
    /\ pc' = "call"
    /\ UNCHANGED << ip, scriptRun, envVars, led, lcd, out, clockVars,
                    windowStart, currentWait, extraDowns, wasConnected,
                    adjHist, gateHist, flagVars >>

\* payloadExecuted = true; and return to setup()
ScriptComplete ==
    /\ AtStep("complete")
    /\ payloadExecuted' = TRUE
    /\ pc' = "finish"
    /\ UNCHANGED << ip, scriptRun, envVars, led, lcd, out, clockVars,
                    adjVars, adjHist, gateHist, lcdAvailable, win10Mode,
                    keyboardBegun, haltVars, hwVars, bus, modeVars, shown >>

\* ------------------------------------------------------------------------
\* dynamicDownAdjustment
\* ------------------------------------------------------------------------
AdjustTitle == IF harness THEN "ADJUST" ELSE Cur.l1

\* mutant: the level sampled last starts as asserted
AdjustEnter_StartsAsserted ==
    /\ pc = "call"
    /\ \E t \in ClockStarts : windowStart' = t /\ now' = t
    /\ currentWait' = INITIAL_WAIT
    /\ extraDowns' = 0
    /\ wasConnected' = TRUE
    /\ lcd' = IF lcdAvailable THEN << AdjustTitle, "Touch D7" >> ELSE lcd
    /\ shown' = IF lcdAvailable THEN initialWaitSec ELSE shown
    /\ pc' = "adjust"
    /\ UNCHANGED << ip, scriptRun, envVars, led, out, startTime,
                    initialWaitSec, touchWaitSec, adjHist, gateHist,
                    lcdAvailable, payloadExecuted, win10Mode, keyboardBegun,
                    haltVars, hwVars, bus, modeVars >>

AdjustEnter ==
    /\ pc = "call"
    /\ \E t \in ClockStarts : windowStart' = t /\ now' = t
    /\ currentWait' = INITIAL_WAIT
    /\ extraDowns' = 0
    /\ wasConnected' = FALSE
    /\ lcd' = IF lcdAvailable THEN << AdjustTitle, "Touch D7" >> ELSE lcd
    /\ shown' = IF lcdAvailable THEN initialWaitSec ELSE shown
    /\ pc' = "adjust"
    /\ UNCHANGED << ip, scriptRun, envVars, led, out, startTime,
                    initialWaitSec, touchWaitSec, adjHist, gateHist,
                    lcdAvailable, payloadExecuted, win10Mode, keyboardBegun,
                    haltVars, hwVars, bus, modeVars >>

\* one iteration of the while (true) loop
AdjustPoll ==
    /\ pc = "adjust"
    /\ LET elapsed == Elapsed(now, windowStart)
           remaining == ToInt16(Div1000U32(Sub32(currentWait, elapsed)))
           isConnected == (d7 = "LOW")
           touch == EdgeDetected(isConnected, wasConnected)
           busy == (IF touch THEN PressKeyTime + TOUCH_DELAY ELSE 0)
       IN  IF WindowClosed(elapsed, currentWait)
           THEN /\ pc' = "adjust_done"
                /\ UNCHANGED << out, led, lcd, shown, now, adjVars, adjHist >>
           ELSE /\ pc' = pc
                /\ extraDowns' = IF touch /\ extraDowns < MaxTouches
                                  THEN extraDowns + 1 ELSE extraDowns
                /\ out' = IF touch /\ extraDowns < MaxTouches
                           THEN Append(out, "DOWN") ELSE out
                /\ led' = IF touch THEN "OFF" ELSE led
                /\ lcd' = IF touch /\ lcdAvailable
                          THEN << lcd[1],
                                  "+" \o ToString(extraDowns') \o " DOWN" >>
                          ELSE lcd
                /\ shown' = IF lcdAvailable THEN remaining ELSE shown
                /\ IF touch
                   THEN \E t \in ClockStarts :
                            /\ windowStart' = t
                            /\ now' = Add32(t, POLL_DELAY)
                   ELSE /\ windowStart' = windowStart
                        /\ now' = Add32(now, POLL_DELAY)
                /\ currentWait' = IF touch THEN TOUCH_WAIT ELSE currentWait
                /\ wasConnected' = Remember(isConnected)
                /\ UNCHANGED << initialWaitSec, touchWaitSec >>
                /\ IF keepHist
                   THEN /\ spent' = spent + busy + POLL_DELAY
                        /\ edgeAt' = IF touch THEN spent ELSE edgeAt
                        /\ lastPollD7' = d7
                        /\ heldPolls' = IF isConnected
                                        THEN Min(heldPolls + 1, MaxHeldPolls)
                                        ELSE 0
                        /\ holdDowns' =
                              IF isConnected
                              THEN (IF lastPollD7 = "LOW" THEN holdDowns ELSE 0)
                                   + (IF touch THEN 1 ELSE 0)
                              ELSE 0
                   ELSE UNCHANGED adjHist
    /\ UNCHANGED << ip, scriptRun, envVars, startTime, gateHist,
                    lcdAvailable, payloadExecuted, win10Mode, keyboardBegun,
                    haltVars, hwVars, bus, modeVars >>

\* the code after the loop: show the result, delay(500), return extraDowns
AdjustReturn ==
    /\ pc = "adjust_done"
    /\ lcd' = IF lcdAvailable
              THEN << lcd[1], "Done: +" \o ToString(extraDowns) \o " DOWNs" >>
              ELSE lcd
    /\ pc' = IF harness THEN "returned" ELSE "script"
    /\ ip' = IF harness THEN ip ELSE ip + 1
    /\ now' = 0
    /\ windowStart' = 0
    /\ currentWait' = 0
    /\ wasConnected' = FALSE
    /\ initialWaitSec' = 0
    /\ touchWaitSec' = 0
    /\ UNCHANGED << scriptRun, envVars, led, out, startTime, extraDowns,
                    adjHist, gateHist, flagVars >>

\* ------------------------------------------------------------------------
\* setup() after the script, and loop()
\* ------------------------------------------------------------------------
SetupFinish ==
    /\ pc = "finish"
    /\ lcd' = IF ~lcdAvailable THEN lcd
              ELSE IF win10Mode THEN << "DONE!", "Win10 wipe done" >>
              ELSE << "COMPLETE!", "Password removed" >>
    /\ led' = "ON"
    /\ pc' = "loop"
    /\ UNCHANGED << ip, scriptRun, envVars, out, clockVars, adjVars,
                    adjHist, gateHist, flagVars >>

\* mutant: loop() runs the payload again
Loop_Rerun ==
    /\ pc = "loop"
    /\ pc' = "dispatch"
    /\ UNCHANGED << ip, scriptRun, envVars, led, lcd, out, clockVars,
                    adjVars, adjHist, gateHist, flagVars >>

Loop ==
    /\ pc = "loop"
    /\ led' = IF payloadExecuted THEN "ON" ELSE led
    /\ UNCHANGED << pc, ip, scriptRun, envVars, lcd, out, clockVars,
                    adjVars, adjHist, gateHist, flagVars >>

\* ------------------------------------------------------------------------
\* Error codes and their labels
\* ------------------------------------------------------------------------
ERR_NONE == 0
ERR_LCD_NOT_FOUND == 1
ERR_LCD_INIT_FAILED == 2
ERR_I2C_BUS_ERROR == 3
ERR_KEYBOARD_INIT == 4
ERR_SWITCH_FLOATING == 10
ERR_NO_PULLUP == 11
ERR_BOOT_TIMEOUT == 20
ERR_SETUP_TIMEOUT == 21
ERR_PARTITION_FAILED == 22
ERR_INSTALL_FAILED == 23
ERR_UNKNOWN == 99

\* the errors of enum ErrorCode
ErrorCodes ==
    { ERR_LCD_NOT_FOUND, ERR_LCD_INIT_FAILED, ERR_I2C_BUS_ERROR,
      ERR_KEYBOARD_INIT, ERR_SWITCH_FLOATING, ERR_NO_PULLUP,
      ERR_BOOT_TIMEOUT, ERR_SETUP_TIMEOUT, ERR_PARTITION_FAILED,
      ERR_INSTALL_FAILED, ERR_UNKNOWN }

Info(s, d, n) == [shortMsg |-> s, detailMsg |-> d, ledBlinks |-> n]

\* mutant: the default case shares the blink count of E23
DefaultInfo_Aliased == Info("E99:UNKNOWN", "Unknown error", 23)

\* mutant: the labels of the default case are spelled out
DefaultInfo_Long == Info("E99:UNKNOWN ERROR", "Unknown error code", 99)

\* the default case of the switch
DefaultInfo == Info("E99:UNKNOWN", "Unknown error", 99)

getErrorInfo(code) ==
    CASE code = ERR_NONE -> Info("NO ERROR", "All OK", 0)
      [] code = ERR_LCD_NOT_FOUND ->
             Info("E01:LCD MISSING", "Check I2C wiring", 1)
      [] code = ERR_LCD_INIT_FAILED ->
             Info("E02:LCD FAILED", "Wrong address?", 2)
      [] code = ERR_I2C_BUS_ERROR ->
             Info("E03:I2C ERROR", "SDA/SCL wiring", 3)
      [] code = ERR_KEYBOARD_INIT ->
             Info("E04:USB ERROR", "HID init failed", 4)
      [] code = ERR_SWITCH_FLOATING ->
             Info("E10:BAD BUTTON", "Pin floating", 10)
      [] code = ERR_NO_PULLUP -> Info("E11:NO PULLUP", "Check pin 7", 11)
      [] code = ERR_BOOT_TIMEOUT -> Info("E20:BOOT FAIL", "No boot menu", 20)
      [] code = ERR_SETUP_TIMEOUT ->
             Info("E21:SETUP FAIL", "Win not loaded", 21)
      [] code = ERR_PARTITION_FAILED ->
             Info("E22:WIPE FAIL", "Partition error", 22)
      [] code = ERR_INSTALL_FAILED ->
             Info("E23:INSTALL ERR", "Didn't start", 23)
      [] OTHER -> DefaultInfo

\* ------------------------------------------------------------------------
\* haltWithError
\* ------------------------------------------------------------------------
FLASH_TIMES == 5

\* the custom character 2 (warning sign) showError writes before the label
WarningChar == "\\x02"

\* the lines displayError prints on Serial for a code
SerialReport(code) ==
    << "Code: E" \o (IF code < 10 THEN "0" ELSE "") \o ToString(code),
       "Message: " \o getErrorInfo(code).shortMsg,
       "Detail: " \o getErrorInfo(code).detailMsg >>

\* what showError(codeLine, detailLine) leaves on the display
ErrorScreen(code) ==
    << WarningChar \o getErrorInfo(code).shortMsg,
       getErrorInfo(code).detailMsg >>

\* displayError(code): the report on Serial and on the display, which takes
\* it when it is there
HaltDisplayError ==
    /\ pc = "haltWithError"
    /\ serial' = SerialReport(errorNum)
    /\ lcd' = IF initDisplay(bus) THEN ErrorScreen(errorNum) ELSE lcd
    /\ pc' = "flash"
    /\ UNCHANGED << ip, scriptRun, envVars, led, out, clockVars, adjVars,
                    adjHist, gateHist, lcdAvailable, payloadExecuted,
                    win10Mode, keyboardBegun, errorNum, blinkStage, blinkI,
                    blinkMs, blinkHist, flashCount, hwVars, bus, modeVars,
                    shown >>

\* mutant: haltWithError returns after the flashes
HaltFlash_Returns ==
    /\ pc = "flash"
    /\ IF flashCount < FLASH_TIMES
       THEN flashCount' = flashCount + 1 /\ pc' = pc
       ELSE flashCount' = flashCount /\ pc' = "returned"
    /\ UNCHANGED << ip, scriptRun, envVars, led, lcd, out, clockVars,
                    adjVars, adjHist, gateHist, lcdAvailable,
                    payloadExecuted, win10Mode, keyboardBegun, errorNum,
                    blinkStage, blinkI, blinkMs, blinkHist, serial, hwVars,
                    bus, modeVars, shown >>

\* flashDisplay(5, 200), one flash of the backlight at a time, and then the
\* call of blinkErrorPattern((int)code)
HaltFlash ==
    /\ pc = "flash"
    /\ IF flashCount < FLASH_TIMES
       THEN flashCount' = flashCount + 1 /\ pc' = pc
       ELSE flashCount' = flashCount /\ pc' = "halt"
    /\ UNCHANGED << ip, scriptRun, envVars, led, lcd, out, clockVars,
                    adjVars, adjHist, gateHist, lcdAvailable,
                    payloadExecuted, win10Mode, keyboardBegun, errorNum,
                    blinkStage, blinkI, blinkMs, blinkHist, serial, hwVars,
                    bus, modeVars, shown >>

\* a halt is entered by haltWithError(code), or by setup() finding no display
InitHalt ==
    /\ InitCommon
    /\ TableIdle
    /\ ButtonIdle
    /\ UtilIdle
    /\ lcd = << "", "" >>
    /\ initialWaitSec = 0
    /\ touchWaitSec = 0
    /\ harness = FALSE
    /\ keepHist = FALSE
    /\ hwResult = -1
    /\ \/ /\ pc = "haltWithError"
          /\ errorNum \in ErrorCodes
          /\ bus \in { {}, {LCD_ADDRESS} }
          /\ lcdAvailable = initDisplay(bus)
       \/ /\ pc = "diagnose"
          /\ errorNum = 0
          /\ bus \in { b \in BusConfigs : ~initDisplay(b) }
          /\ lcdAvailable = FALSE

\* blinkErrorPattern(n) called on its own
BlinkCodes == 1..99

InitBlink ==
    /\ InitCommon
    /\ TableIdle
    /\ ButtonIdle
    /\ UtilIdle
    /\ lcd = << "", "" >>
    /\ initialWaitSec = 0
    /\ touchWaitSec = 0
    /\ harness = FALSE
    /\ keepHist = FALSE
    /\ hwResult = -1
    /\ pc = "halt"
    /\ errorNum \in BlinkCodes
    /\ bus = {}
    /\ lcdAvailable = FALSE

\* ------------------------------------------------------------------------
\* getErrorInfo and blinkErrorPattern applied to two codes
\* ------------------------------------------------------------------------
CodeValues == 0..MaxCode

InitTable ==
    /\ InitCommon
    /\ ButtonIdle
    /\ UtilIdle
    /\ lcd = << "", "" >>
    /\ initialWaitSec = 0
    /\ touchWaitSec = 0
    /\ harness = FALSE
    /\ keepHist = FALSE
    /\ hwResult = -1
    /\ errorNum = 0
    /\ bus = {}
    /\ lcdAvailable = FALSE
    /\ pc = "table_lookup"
    /\ codeA \in CodeValues
    /\ codeB \in CodeValues
    /\ infoA = [shortMsg |-> "", detailMsg |-> "", ledBlinks |-> 0]
    /\ infoB = [shortMsg |-> "", detailMsg |-> "", ledBlinks |-> 0]
    /\ cycleA = << >>
    /\ cycleB = << >>

\* ErrorInfo info = getErrorInfo(code), for each of the two codes
TableLookup ==
    /\ pc = "table_lookup"
    /\ infoA' = getErrorInfo(codeA)
    /\ infoB' = getErrorInfo(codeB)
    /\ pc' = "table_blink"
    /\ UNCHANGED << ip, scriptRun, envVars, led, lcd, out, clockVars,
                    adjVars, adjHist, gateHist, lcdAvailable,
                    payloadExecuted, win10Mode, keyboardBegun, haltVars,
                    hwVars, bus, harness, keepHist, shown, codeA, codeB,
                    cycleA, cycleB, buttonVars, utilVars,
                    hidVars, edgeHist >>

\* blinkErrorPattern((int)code), one pass of its loop, for each of the two
TableBlink ==
    /\ pc = "table_blink"
    /\ cycleA' = CyclePulses(codeA)
    /\ cycleB' = CyclePulses(codeB)
    /\ pc' = "table_done"
    /\ UNCHANGED << ip, scriptRun, envVars, led, lcd, out, clockVars,
                    adjVars, adjHist, gateHist, lcdAvailable,
                    payloadExecuted, win10Mode, keyboardBegun, haltVars,
                    hwVars, bus, harness, keepHist, shown, codeA, codeB,
                    infoA, infoB, buttonVars, utilVars,
                    hidVars, edgeHist >>

\* ------------------------------------------------------------------------
\* checkHardware and checkSwitchWiring
\* ------------------------------------------------------------------------
\* number of samples checkSwitchWiring takes
SAMPLES == 10

\* the alternate address checkHardware probes, 0x3F
ALT_ADDRESS == 63

\* the display addresses config.h documents as common: 0x27 and 0x3F
DocumentedAddresses == {39, 63}

\* I2C bus populations checkHardware is run with
HwBusConfigs == BusConfigs \cup { {1}, {126}, {127}, {39, 80} }

checkI2CDevice(b, address) == address \in b

\* mutant: only the range of display addresses is scanned
FoundAnyDevice_DisplayRange(b) ==
    \E addr \in 32..63 : checkI2CDevice(b, addr)

\* for (addr = 1; addr < 127; addr++) if (checkI2CDevice(addr)) ...
FoundAnyDevice(b) == \E addr \in 1..126 : checkI2CDevice(b, addr)

\* mutant: a count of 8 still counts as inconsistent
Floating_Inclusive(h, l) == h > 0 /\ l > 0 /\ h <= 8 /\ l <= 8

\* the test of checkSwitchWiring on its two counters
Floating(h, l) == h > 0 /\ l > 0 /\ h < 8 /\ l < 8

\* mutant: a failed bus scan does not return
HwBusScan_NoReturn ==
    /\ pc = "checkHardware"
    /\ pc' = "hw_identity"
    /\ UNCHANGED << ip, scriptRun, envVars, led, lcd, out, clockVars,
                    adjVars, adjHist, gateHist, lcdAvailable,
                    payloadExecuted, win10Mode, keyboardBegun, haltVars,
                    hwVars, bus, modeVars, shown >>

\* Check 1: is anything on the I2C bus?
HwBusScan ==
    /\ pc = "checkHardware"
    /\ IF ~FoundAnyDevice(bus)
       THEN hwResult' = ERR_I2C_BUS_ERROR /\ pc' = "hw_returned"
       ELSE hwResult' = hwResult /\ pc' = "hw_identity"
    /\ UNCHANGED << ip, scriptRun, envVars, led, lcd, out, clockVars,
                    adjVars, adjHist, gateHist, lcdAvailable,
                    payloadExecuted, win10Mode, keyboardBegun, haltVars,
                    highCount, lowCount, bus, modeVars, shown >>

\* Check 2: is the LCD at the expected address?  When it is, Check 3 starts:
\* checkSwitchWiring() is called
HwIdentity ==
    /\ pc = "hw_identity"
    /\ IF ~checkI2CDevice(bus, LCD_ADDRESS)
       THEN /\ hwResult' = IF checkI2CDevice(bus, ALT_ADDRESS)
                           THEN ERR_LCD_INIT_FAILED ELSE ERR_LCD_NOT_FOUND
            /\ pc' = "hw_returned"
       ELSE /\ hwResult' = hwResult
            /\ pc' = "checkSwitchWiring"
    /\ highCount' = 0
    /\ lowCount' = 0
    /\ UNCHANGED << ip, scriptRun, envVars, led, lcd, out, clockVars,
                    adjVars, adjHist, gateHist, lcdAvailable,
                    payloadExecuted, win10Mode, keyboardBegun, haltVars,
                    bus, modeVars, shown >>

\* one iteration of the sampling loop of checkSwitchWiring
SwitchSample ==
    /\ pc = "checkSwitchWiring"
    /\ highCount + lowCount < SAMPLES
    /\ IF d7 = "HIGH"
       THEN highCount' = highCount + 1 /\ lowCount' = lowCount
       ELSE lowCount' = lowCount + 1 /\ highCount' = highCount
    /\ UNCHANGED << pc, ip, scriptRun, envVars, led, lcd, out, clockVars,
                    adjVars, adjHist, gateHist, lcdAvailable,
                    payloadExecuted, win10Mode, keyboardBegun, haltVars,
                    hwResult, bus, modeVars, shown >>

\* the test after the loop, the return of checkSwitchWiring and the return
\* of checkHardware with its result (or with ERR_NONE)
SwitchClassify ==
    /\ pc = "checkSwitchWiring"
    /\ highCount + lowCount = SAMPLES
    /\ hwResult' = IF Floating(highCount, lowCount)
                   THEN ERR_SWITCH_FLOATING ELSE ERR_NONE
    /\ pc' = "hw_returned"
    /\ UNCHANGED << ip, scriptRun, envVars, led, lcd, out, clockVars,
                    adjVars, adjHist, gateHist, lcdAvailable,
                    payloadExecuted, win10Mode, keyboardBegun, haltVars,
                    highCount, lowCount, bus, modeVars, shown >>

\* checkHardware() called on its own
InitHardware ==
    /\ InitCommon
    /\ TableIdle
    /\ ButtonIdle
    /\ UtilIdle
    /\ lcd = << "", "" >>
    /\ initialWaitSec = 0
    /\ touchWaitSec = 0
    /\ harness = FALSE
    /\ keepHist = FALSE
    /\ hwResult = -1
    /\ errorNum = 0
    /\ pc = "checkHardware"
    /\ bus \in HwBusConfigs
    /\ lcdAvailable = FALSE

\* ------------------------------------------------------------------------
\* The firmware armed by a push button (src/main.cpp)
\* ------------------------------------------------------------------------
\* values millis() may have when waitForArmHold captures startTime: the
\* second one has the counter roll over during the hold
ArmStarts == {0, -2000}

\* what no step of setup() before the payload changes, the inputs aside
buttonFixed == << bus, shown, win10Mode, keyboardBegun, out,
                  payloadExecuted, blinkStage, blinkI, blinkMs, blinkHist,
                  reportVars, adjVars, gateHist, lastPollD7, heldPolls,
                  holdDowns, edgeAt, hwResult, harness, keepHist, tableVars,
                  utilVars, hidVars, edgeHist >>

\* millis() - lastBlink after d more milliseconds
BlinkAge(s, d) == Min(s + d, BLINK_PERIOD + 1)

\* mutant: the hold is over after 300 ms
HoldLongEnough_Short(elapsed) == GeU32(elapsed, 300)

\* if (elapsed >= ARM_HOLD_TIME)
HoldLongEnough(elapsed) == GeU32(elapsed, ARM_HOLD_TIME)

\* isButtonPressed()
isButtonPressed(p7) == p7 = "LOW"

\* the button is pressed or released
EnvPress ==
    /\ flips < MaxFlips
    /\ flips' = flips + 1
    /\ d7' = Toggle(d7)
    /\ UNCHANGED << d10, pc, ip, scriptRun, led, lcd, out, clockVars,
                    adjVars, adjHist, gateHist, flagVars >>

\* lcdAvailable = initDisplay();
ButtonInitDisplay ==
    /\ pc = "button_boot"
    /\ lcdAvailable' = initDisplay(bus)
    /\ pc' = IF initDisplay(bus) THEN "button_startup" ELSE "diagnose"
    /\ UNCHANGED << buttonFixed, envVars, ip, scriptRun, led, lcd, errorNum,
                    clockVars, spent, highCount, lowCount, buttonVars >>

\* showStatus("AUTO-WIPE v1.0", "Checking HW..."); and the call of
\* checkSwitchWiring
ButtonStartup ==
    /\ pc = "button_startup"
    /\ lcd' = << "AUTO-WIPE v1.0", "Checking HW..." >>
    /\ pc' = "checkSwitchWiring"
    /\ UNCHANGED << buttonFixed, envVars, ip, scriptRun, led, lcdAvailable,
                    errorNum, clockVars, spent, highCount, lowCount,
                    buttonVars >>

\* the test after the sampling loop, the return of checkSwitchWiring (its
\* two counters are gone) and what setup() does with the result, up to the
\* entry of the ready loop
ButtonClassify ==
    /\ pc = "checkSwitchWiring"
    /\ highCount + lowCount = SAMPLES
    /\ highCount' = 0
    /\ lowCount' = 0
    /\ IF Floating(highCount, lowCount)
       THEN /\ errorNum' = ERR_SWITCH_FLOATING
            /\ pc' = "haltWithError"
            /\ UNCHANGED << lcd, ledState, sinceBlink >>
       ELSE /\ lcd' = << "READY", "Press btn 3s..." >>
            /\ ledState' = FALSE
            /\ sinceBlink' = BLINK_PERIOD + 1
            /\ pc' = "ready"
            /\ UNCHANGED errorNum
    /\ UNCHANGED << buttonFixed, envVars, ip, scriptRun, led, lcdAvailable,
                    clockVars, spent, lastSecond, allPressed, cancels >>

\* one iteration of the ready loop: the heartbeat of the LED and the first
\* read of the button
ReadyPoll ==
    /\ pc = "ready"
    /\ ~payloadExecuted
    /\ LET due == sinceBlink > BLINK_PERIOD
           age == IF due THEN 0 ELSE sinceBlink
       IN  /\ ledState' = IF due THEN ~ledState ELSE ledState
           /\ led' = IF due THEN (IF ~ledState THEN "ON" ELSE "OFF") ELSE led
           /\ IF isButtonPressed(d7)
              THEN pc' = "debounce" /\ sinceBlink' = age
              ELSE pc' = "ready" /\ sinceBlink' = BlinkAge(age, 10)
    /\ UNCHANGED << buttonFixed, envVars, ip, scriptRun, lcd, lcdAvailable,
                    errorNum, clockVars, spent, highCount, lowCount,
                    lastSecond, allPressed, cancels >>

\* delay(BUTTON_DEBOUNCE); and the second read of the button. The hold
\* that follows a pressed read ends in the payload or in the 1000 ms of the
\* cancel screen, so that the heartbeat is due when it is tested next
ReadyDebounce ==
    /\ pc = "debounce"
    /\ IF isButtonPressed(d7)
       THEN pc' = "waitForArmHold" /\ sinceBlink' = BLINK_PERIOD + 1
       ELSE /\ pc' = "ready"
            /\ sinceBlink' = BlinkAge(sinceBlink, BUTTON_DEBOUNCE + 10)
    /\ UNCHANGED << buttonFixed, envVars, ip, scriptRun, led, lcd,
                    lcdAvailable, errorNum, clockVars, spent, highCount,
                    lowCount, lastSecond, ledState, allPressed, cancels >>

\* unsigned long startTime = millis(); int lastSecond = -1;
HoldEnter ==
    /\ pc = "waitForArmHold"
    /\ \E t \in ArmStarts : startTime' = t /\ now' = t
    /\ lastSecond' = -1
    /\ spent' = 0
    /\ allPressed' = TRUE
    /\ pc' = "hold"
    /\ UNCHANGED << buttonFixed, envVars, ip, scriptRun, led, lcd,
                    lcdAvailable, errorNum, highCount, lowCount, ledState,
                    sinceBlink, cancels >>

\* one evaluation of the while condition of waitForArmHold and, when the
\* button reads pressed, one iteration of its body
HoldPoll ==
    /\ pc = "hold"
    /\ allPressed' = (allPressed /\ d7 = "LOW")
    /\ IF isButtonPressed(d7)
       THEN LET elapsed == Elapsed(now, startTime)
                remaining ==
                    ToInt16(Div1000U32(Sub32(ARM_HOLD_TIME, elapsed)) + 1)
                changed == remaining # lastSecond
                blink == IF changed THEN 100 ELSE 0
                taken == IF HoldLongEnough(elapsed)
                         THEN blink ELSE blink + 50
            IN  /\ lastSecond' = remaining
                /\ lcd' = IF changed
                          THEN << "HOLD TO ARM:  " \o ToString(remaining)
                                      \o "s",
                                  "Release=Cancel  " >>
                          ELSE lcd
                /\ led' = IF changed THEN "OFF" ELSE led
                /\ pc' = IF HoldLongEnough(elapsed) THEN "armed" ELSE "hold"
                /\ now' = Add32(now, taken)
                /\ spent' = spent + taken
                /\ UNCHANGED startTime
       ELSE /\ pc' = "cancelled"
            /\ UNCHANGED << lastSecond, lcd, led, clockVars, spent >>
    /\ UNCHANGED << buttonFixed, envVars, ip, scriptRun, lcdAvailable,
                    errorNum, highCount, lowCount, ledState, sinceBlink,
                    cancels >>

\* mutant: the else is missing, the cancelled attempt runs the payload
HoldCancel_FallsThrough ==
    /\ pc = "cancelled"
    /\ lcd' = << "CANCELLED", "Press btn 3s..." >>
    /\ cancels' = Min(cancels + 1, MaxFlips)
    /\ now' = 0
    /\ startTime' = 0
    /\ pc' = "armed"
    /\ UNCHANGED << buttonFixed, envVars, ip, scriptRun, led, lcdAvailable,
                    errorNum, spent, highCount, lowCount, lastSecond,
                    ledState, sinceBlink, allPressed >>

\* waitForArmHold has returned false:
\* showStatus("CANCELLED", "Press btn 3s..."); delay(1000);
HoldCancel ==
    /\ pc = "cancelled"
    /\ lcd' = << "CANCELLED", "Press btn 3s..." >>
    /\ cancels' = Min(cancels + 1, MaxFlips)
    /\ now' = 0
    /\ startTime' = 0
    /\ pc' = "resume"
    /\ UNCHANGED << buttonFixed, envVars, ip, scriptRun, led, lcdAvailable,
                    errorNum, spent, highCount, lowCount, lastSecond,
                    ledState, sinceBlink, allPressed >>

\* showStatus("READY", "Press btn 3s..."); delay(10); and back to the
\* condition of the ready loop
HoldResume ==
    /\ pc = "resume"
    /\ lcd' = << "READY", "Press btn 3s..." >>
    /\ sinceBlink' = BlinkAge(sinceBlink, BUTTON_DEBOUNCE + 1000 + 10)
    /\ pc' = "ready"
    /\ UNCHANGED << buttonFixed, envVars, ip, scriptRun, led, lcdAvailable,
                    errorNum, clockVars, spent, highCount, lowCount,
                    lastSecond, ledState, allPressed, cancels >>

\* waitForArmHold has returned true:
\* showStatus("\x03 ARMED! \x03", "EXECUTING..."); blinkLED(5, 100);
\* and the call of executePayload with its flashDisplay and blinkLED
ArmedExec ==
    /\ pc = "armed"
    /\ lcd' = << "\\x03 ARMED! \\x03", "EXECUTING..." >>
    /\ led' = "OFF"
    /\ scriptRun' = "wipe"
    /\ ip' = 1
    /\ now' = 0
    /\ startTime' = 0
    /\ pc' = "script"
    /\ UNCHANGED << buttonFixed, envVars, lcdAvailable, errorNum, spent,
                    highCount, lowCount, buttonVars >>

\* pressCombo(modifier, key); delay(ms)
ScriptCombo ==
    /\ AtStep("combo")
    /\ out' = Append(out, Cur.modifier \o "+" \o Cur.key)
    /\ ip' = ip + 1
    /\ UNCHANGED << pc, scriptRun, envVars, led, lcd, clockVars, adjVars,
                    adjHist, gateHist, flagVars >>

\* showComplete(); ledOn(); payloadExecuted = true; and the return to
\* setup(), whose ready loop ends
PayloadDone ==
    /\ AtStep("done")
    /\ lcd' = << "\\x01 COMPLETE \\x01", "Installing Win!" >>
    /\ led' = "ON"
    /\ payloadExecuted' = TRUE
    /\ pc' = "loop"
    /\ UNCHANGED << ip, scriptRun, envVars, out, clockVars, adjVars,
                    adjHist, gateHist, lcdAvailable, win10Mode,
                    keyboardBegun, haltVars, hwVars, bus, modeVars, shown >>

\* power-up of the button firmware, which uses pin 7 only
InitButton ==
    /\ InitCommon
    /\ d10 = "HIGH"
    /\ TableIdle
    /\ ButtonIdle
    /\ UtilIdle
    /\ pc = "button_boot"
    /\ bus \in BusConfigs
    /\ lcdAvailable = FALSE
    /\ lcd = << "", "" >>
    /\ initialWaitSec = 0
    /\ touchWaitSec = 0
    /\ harness = FALSE
    /\ keepHist = FALSE
    /\ errorNum = 0
    /\ hwResult = -1

\* ------------------------------------------------------------------------
\* The keyboard utilities (src/keyboard_utils.cpp), called one after the
\* other by a caller that does nothing else, in either build
\* ------------------------------------------------------------------------
\* arguments the utilities are called with
UtilKeys == {"DOWN", "F12"}
UtilStrings == { << >>, << "o", "k" >> }
UtilChars == {"o", " "}
UtilTimes == {0, 2}
UtilDurations == {200, 300}
UtilIntervals == {100, 150}
\* values millis() may have when spamKey captures startTime: the second one
\* has the counter roll over during the call
SpamKeyStarts == {0, -100}

\* what no utility changes
utilFixed == << ip, scriptRun, envVars, bus, lcdAvailable, payloadExecuted,
                led, lcd, shown, win10Mode, errorNum, blinkStage, blinkI,
                blinkMs, adjVars, gateHist, harness, keepHist, adjHist,
                hwVars, flashCount, blinkHist, tableVars, buttonVars,
                demoMode, edgeHist >>

RECURSIVE Text(_)
\* the characters of a string, as Serial.println(str) prints them
Text(cs) == IF cs = << >> THEN "" ELSE Head(cs) \o Text(Tail(cs))

\* the calls of the Keyboard object, and what each does to the keys the
\* HID report holds pressed
Keyboard_press(k) == [op |-> "press", key |-> k]
Keyboard_release(k) == [op |-> "release", key |-> k]
Keyboard_write(c) == [op |-> "write", key |-> c]
Keyboard_releaseAll == [op |-> "releaseAll", key |-> ""]

\* Keyboard.write(c) is press(c) followed by release(c)
HidCall(h, o) ==
    CASE o.op = "press" -> h \cup {o.key}
      [] o.op = "release" -> h \ {o.key}
      [] o.op = "write" -> (h \cup {o.key}) \ {o.key}
      [] OTHER -> {}

RECURSIVE HidReport(_, _)
HidReport(h, ops) ==
    IF ops = << >> THEN h ELSE HidReport(HidCall(h, Head(ops)), Tail(ops))

\* Keyboard.press(key); delay; Keyboard.release(key);
Tap(k) == << Keyboard_press(k), Keyboard_release(k) >>

\* one call of a utility without a timed loop, from the call to the return:
\* skip is the condition its #if tests, sent the keys its Keyboard calls put
\* on the HID channel, n the number of those calls, demoLog and realLog the
\* lines it prints on Serial in the two builds
Utility(skip, sent, ops, demoLog, realLog) ==
    /\ pc = "util_idle"
    /\ calls < MaxCalls
    /\ calls' = calls + 1
    /\ out' = IF skip THEN out ELSE out \o sent
    /\ hidCalls' = IF skip THEN hidCalls ELSE hidCalls + Len(ops)
    /\ held' = IF skip THEN held ELSE HidReport(held, ops)
    /\ serial' = IF skip THEN demoLog ELSE realLog
    /\ UNCHANGED << pc, keyboardBegun, clockVars, durationMs, intervalMs,
                    key, spamCount, utilFixed >>

PressLog(k) == "[DEMO] Press key: " \o k

\* initKeyboard()
initKeyboard ==
    /\ pc = "util_idle"
    /\ calls < MaxCalls
    /\ calls' = calls + 1
    /\ keyboardBegun' = (keyboardBegun \/ ~demoMode)
    /\ hidCalls' = IF demoMode THEN hidCalls ELSE hidCalls + 1
    /\ serial' = IF demoMode
                 THEN << "[DEMO] Keyboard disabled - demo mode active" >>
                 ELSE << >>
    /\ UNCHANGED << pc, out, clockVars, durationMs, intervalMs, key,
                    spamCount, held, utilFixed >>

\* pressKey(k)
pressKey(k) == Utility(demoMode, << k >>, Tap(k), << PressLog(k) >>, << >>)

\* pressChar(c)
pressChar(c) ==
    Utility(demoMode, << c >>, << Keyboard_write(c) >>,
            << "[DEMO] Press char: " \o c >>, << >>)

\* typeString(str)
typeString(str) ==
    Utility(demoMode, str, [i \in 1..Len(str) |-> Keyboard_write(str[i])],
            << "[DEMO] Type string: " \o Text(str) >>, << >>)

\* mutant: pressCombo returns without Keyboard.releaseAll()
pressCombo_StillHeld(modifier, k) ==
    Utility(demoMode, << modifier \o "+" \o k >>,
            << Keyboard_press(modifier), Keyboard_press(k) >>,
            << "[DEMO] Combo: " \o modifier \o " + " \o k >>, << >>)

\* pressCombo(modifier, k)
pressCombo(modifier, k) ==
    Utility(demoMode, << modifier \o "+" \o k >>,
            << Keyboard_press(modifier), Keyboard_press(k),
               Keyboard_releaseAll >>,
            << "[DEMO] Combo: " \o modifier \o " + " \o k >>, << >>)

\* pressCombo3(mod1, mod2, k)
pressCombo3(mod1, mod2, k) ==
    Utility(demoMode, << mod1 \o "+" \o mod2 \o "+" \o k >>,
            << Keyboard_press(mod1), Keyboard_press(mod2), Keyboard_press(k),
               Keyboard_releaseAll >>,
            << "[DEMO] Combo3: " \o mod1 \o " + " \o mod2 \o " + " \o k >>,
            << >>)

\* holdKey(k, ms)
holdKey(k, ms) ==
    Utility(demoMode, << k >>, Tap(k),
            << "[DEMO] Hold key " \o k \o " for " \o ToString(ms) \o "ms" >>,
            << >>)

\* pressDownMultiple(times): the line it prints in both builds and the
\* calls of pressKey
pressDownMultiple(times) ==
    Utility(demoMode, Rep(times, << "DOWN" >>), Rep(times, Tap("DOWN")),
            << "[DEMO] DOWN x" \o ToString(times) >>
                \o Rep(times, << PressLog("DOWN") >>),
            << "[DEMO] DOWN x" \o ToString(times) >>)

\* pressTabMultiple(times)
pressTabMultiple(times) ==
    Utility(demoMode, Rep(times, << "TAB" >>), Rep(times, Tap("TAB")),
            << "[DEMO] TAB x" \o ToString(times) >>
                \o Rep(times, << PressLog("TAB") >>),
            << "[DEMO] TAB x" \o ToString(times) >>)

\* waitThenPress(k, waitMs)
waitThenPress(k, waitMs) ==
    Utility(demoMode, << k >>, Tap(k), << PressLog(k) >>, << >>)

\* mutant: releaseAllKeys has lost its #if
releaseAllKeys_Unguarded ==
    Utility(FALSE, << >>, << Keyboard_releaseAll >>, << >>, << >>)

\* releaseAllKeys()
releaseAllKeys ==
    Utility(demoMode, << >>, << Keyboard_releaseAll >>, << >>, << >>)

\* spamKey(k, d, i): int count = 0; unsigned long startTime = millis();
spamKeyEnter(k, d, i) ==
    /\ pc = "util_idle"
    /\ calls < MaxCalls
    /\ calls' = calls + 1
    /\ key' = k
    /\ durationMs' = d
    /\ intervalMs' = i
    /\ spamCount' = 0
    /\ \E t \in SpamKeyStarts : startTime' = t /\ now' = t
    /\ pc' = "spamKey"
    /\ UNCHANGED << out, keyboardBegun, hidCalls, held, serial,
                    utilFixed >>

\* one evaluation of the while condition of spamKey and, when it holds, one
\* iteration of its body; when it does not, the report and the return
spamKeyIter ==
    /\ pc = "spamKey"
    /\ IF ~GeU32(Elapsed(now, startTime), durationMs)
       THEN /\ out' = IF demoMode THEN out ELSE Append(out, key)
            /\ hidCalls' = IF demoMode THEN hidCalls ELSE hidCalls + 2
            /\ held' = IF demoMode THEN held ELSE HidReport(held, Tap(key))
            /\ now' = Add32(now, (IF demoMode THEN 0 ELSE KEY_HOLD_DELAY)
                                     + (intervalMs - KEY_HOLD_DELAY))
            /\ spamCount' = spamCount + 1
            /\ UNCHANGED << pc, startTime, serial >>
       ELSE /\ serial' = << "[DEMO] Spammed key " \o key \o " "
                               \o ToString(spamCount) \o " times" >>
            /\ now' = 0
            /\ startTime' = 0
            /\ pc' = "util_idle"
            /\ UNCHANGED << out, hidCalls, held, spamCount >>
    /\ UNCHANGED << calls, keyboardBegun, durationMs, intervalMs, key,
                    utilFixed >>

\* the caller, before its first call, in the build with DEMO_MODE 1 or in
\* the one with DEMO_MODE 0
InitUtil ==
    /\ InitCommon
    /\ TableIdle
    /\ ButtonIdle
    /\ demoMode \in BOOLEAN
    /\ calls = 0
    /\ hidCalls = 0
    /\ durationMs = 0
    /\ intervalMs = 0
    /\ key = ""
    /\ spamCount = 0
    /\ d7 = "HIGH"
    /\ d10 = "HIGH"
    /\ pc = "util_idle"
    /\ bus = {}
    /\ lcdAvailable = FALSE
    /\ lcd = << "", "" >>
    /\ initialWaitSec = 0
    /\ touchWaitSec = 0
    /\ harness = FALSE
    /\ keepHist = FALSE
    /\ errorNum = 0
    /\ hwResult = -1

\* ------------------------------------------------------------------------
\* Specifications
\* ------------------------------------------------------------------------
\* one step of the firmware
Step ==
    \/ SetupInitDisplay
    \/ SetupDiagnose
    \/ BlinkErrorPattern
    \/ SetupStartup
    \/ GateCheck
    \/ WaitBlinkOn
    \/ WaitPoll
    \/ ResolveD7
    \/ ResolveD10
    \/ ShowMode
    \/ ArmedBlink
    \/ Dispatch
    \/ ScriptBegin
    \/ ScriptShow
    \/ ScriptKey
    \/ ScriptType
    \/ ScriptWait
    \/ SpamStart
    \/ SpamIter
    \/ ScriptCall
    \/ AdjustEnter
    \/ AdjustPoll
    \/ AdjustReturn
    \/ ScriptComplete
    \/ SetupFinish
    \/ Loop

Next == Step \/ EnvFlip

Spec == Init /\ [][Next]_vars

\* the processor never stops executing the firmware
FairSpec == Spec /\ WF_vars(Step)

\* the firmware with few changes of the inputs
NextStepwise == Step \/ EnvChange

SpecStepwise == Init /\ [][NextStepwise]_vars

\* dynamicDownAdjustment on its own
AdjustStep == AdjustEnter \/ AdjustPoll \/ AdjustReturn

NextAdjust == AdjustStep \/ EnvFlip

SpecAdjust == InitAdjust /\ [][NextAdjust]_vars

FairSpecAdjust == SpecAdjust /\ WF_vars(AdjustStep)

\* dynamicDownAdjustment on its own, the wire moved without limit
NextAdjustFree == AdjustStep \/ EnvTouch

SpecAdjustFree == InitAdjustFree /\ [][NextAdjustFree]_vars

FairSpecAdjustFree == SpecAdjustFree /\ WF_vars(AdjustStep)

\* dynamicDownAdjustment on its own, the touches made after the first
\* counted one recorded
NextAdjustEdges == AdjustStep \/ EnvRetouch

SpecAdjustEdges == InitAdjust /\ [][NextAdjustEdges]_vars

\* the ways into the halt, and the halt
HaltStep == SetupDiagnose \/ HaltDisplayError \/ HaltFlash \/ BlinkErrorPattern

NextHalt == HaltStep \/ EnvFlip

SpecHalt == InitHalt /\ [][NextHalt]_vars

FairSpecHalt == SpecHalt /\ WF_vars(HaltStep)

\* checkHardware on its own
HardwareStep == HwBusScan \/ HwIdentity \/ SwitchSample \/ SwitchClassify

NextHardware == HardwareStep \/ EnvFlip

SpecHardware == InitHardware /\ [][NextHardware]_vars

\* blinkErrorPattern on its own
SpecBlink == InitBlink /\ [][BlinkErrorPattern]_vars

FairSpecBlink == SpecBlink /\ WF_vars(BlinkErrorPattern)

\* getErrorInfo and blinkErrorPattern applied to two codes
\* one step of the button firmware
ButtonStep ==
    \/ ButtonInitDisplay
    \/ SetupDiagnose
    \/ BlinkErrorPattern
    \/ ButtonStartup
    \/ SwitchSample
    \/ ButtonClassify
    \/ HaltDisplayError
    \/ HaltFlash
    \/ ReadyPoll
    \/ ReadyDebounce
    \/ HoldEnter
    \/ HoldPoll
    \/ HoldCancel
    \/ HoldResume
    \/ ArmedExec
    \/ ScriptBegin
    \/ ScriptShow
    \/ ScriptKey
    \/ ScriptCombo
    \/ ScriptWait
    \/ SpamStart
    \/ SpamIter
    \/ PayloadDone
    \/ Loop

NextButton == ButtonStep \/ EnvPress

SpecButton == InitButton /\ [][NextButton]_vars

\* the processor never stops executing the firmware
FairSpecButton == SpecButton /\ WF_vars(ButtonStep)

\* one call of a utility, or one step of the running spamKey
UtilStep ==
    \/ initKeyboard
    \/ \E k \in UtilKeys : pressKey(k)
    \/ \E c \in UtilChars : pressChar(c)
    \/ \E str \in UtilStrings : typeString(str)
    \/ \E k \in UtilKeys : pressCombo("ALT", k)
    \/ \E k \in UtilKeys : pressCombo3("CTRL", "ALT", k)
    \/ \E k \in UtilKeys, ms \in UtilDurations : holdKey(k, ms)
    \/ \E k \in UtilKeys, d \in UtilDurations, i \in UtilIntervals :
           spamKeyEnter(k, d, i)
    \/ spamKeyIter
    \/ \E times \in UtilTimes : pressDownMultiple(times)
    \/ \E times \in UtilTimes : pressTabMultiple(times)
    \/ \E k \in UtilKeys, waitMs \in UtilDurations :
           waitThenPress(k, waitMs)
    \/ releaseAllKeys

NextUtil == UtilStep

SpecUtil == InitUtil /\ [][NextUtil]_vars

\* the processor never stops executing the running utility
FairSpecUtil == SpecUtil /\ WF_vars(spamKeyIter)

NextTable == TableLookup \/ TableBlink

SpecTable == InitTable /\ [][NextTable]_vars

\* ------------------------------------------------------------------------
\* Properties
\* ------------------------------------------------------------------------
Waiting == {"wait_on", "wait_off"}

InScript == {"script", "spam", "call", "adjust", "adjust_done"}

\* the script that belongs to an operating mode
ScriptOf(mode) ==
    CASE mode = "ModeA" -> "bios"
      [] mode = "ModeB" -> "win10"
      [] OTHER -> "none"

\* number of iterations of the spam loop: presses start at 0, 150, ...
SpamPresses == (BOOT_SPAM_DURATION + PressKeyTime - 1) \div PressKeyTime

\* the keys the steps i.. of a script send when the window counts k touches
RECURSIVE Emitted(_, _, _)
Emitted(script, i, k) ==
    IF i > Len(script) THEN << >>
    ELSE LET st == script[i]
             here == CASE st.op = "key" -> << st.key >>
                       [] st.op = "type" -> st.chars
                       [] st.op = "spam" -> [j \in 1..SpamPresses |-> st.key]
                       [] st.op = "adjust" -> [j \in 1..k |-> "DOWN"]
                       [] OTHER -> << >>
         IN  here \o Emitted(script, i + 1, k)

\* C1: no output-channel action (Keyboard.begin or a key) occurs before a
\* gate read of the primary signal D7 has returned HIGH, and while the device
\* is in the arming wait nothing has been sent.
C1_NoOutputBeforeArmed ==
    /\ (keyboardBegun \/ out # << >>) => sawArmed
    /\ pc \in Waiting => (~keyboardBegun /\ out = << >>)

C1_Witness ==
    /\ waited
    /\ sawArmed
    /\ keyboardBegun
    /\ out # << >>

\* C2 (as claimed): a script is started only if the read of D7 made by
\* isWin10Mode() while resolving the mode returned HIGH.
C2_ScriptOnlyIfPrimaryAsserted ==
    scriptRun # "none" => resolveD7 = "HIGH"

\* C3 (as claimed): the mode is Locked when D7 is not asserted, ModeA when
\* only D7 is asserted, ModeB when both are, and the script setup()
\* dispatches is the one that belongs to the mode of the levels read at
\* mode resolution (none for Locked).
C3_DispatchMatchesMode ==
    /\ \A p10 \in {"LOW", "HIGH"} : OperatingMode("LOW", p10) = "Locked"
    /\ OperatingMode("HIGH", "LOW") = "ModeA"
    /\ OperatingMode("HIGH", "HIGH") = "ModeB"
    /\ scriptRun # "none" =>
           scriptRun = ScriptOf(OperatingMode(resolveD7, resolveD10))

\* C4 (as claimed): with the primary wire off throughout, the script
\* dispatched is the one of the mode derived from the levels the wires have
\* at the moment of dispatch.
C4_DispatchUsesCurrentLevels ==
    [][ (dispatches' = dispatches + 1 /\ resolveD7 = "HIGH" /\ d7 = "HIGH")
        => scriptRun' = ScriptOf(OperatingMode(d7, d10)) ]_vars

\* C4 (amended): the script dispatched is the one selected by win10Mode, the
\* value isWin10Mode() returned at the single mode resolution: the Windows 10
\* script if D7 and D10 both read HIGH then, the BIOS script otherwise.
C4_DispatchUsesResolvedMode ==
    scriptRun # "none" =>
        /\ scriptRun = (IF win10Mode THEN "win10" ELSE "bios")
        /\ win10Mode = (resolveD7 = "HIGH" /\ resolveD10 = "HIGH")

C4_Witness ==
    /\ pc = "script"
    /\ scriptRun = "bios"
    /\ resolveD7 = "HIGH"
    /\ resolveD10 = "LOW"
    /\ d7 = "HIGH"
    /\ d10 = "HIGH"

\* C5: once a script has started it is never aborted, shortened or
\* reordered by the wires: the script stays the same, its steps are taken in
\* order, it ends by setting payloadExecuted, and the keys sent are the fixed
\* sequence of the script with one DOWN per touch counted in the window.
C5_ScriptRunsToCompletion ==
    /\ [][ scriptRun # "none" =>
             /\ scriptRun' = scriptRun
             /\ ip' = ip \/ ip' = ip + 1 ]_vars
    /\ [](payloadExecuted => out = Emitted(Script, 1, extraDowns))
    /\ (scriptRun # "none") ~> payloadExecuted

C5_Witness ==
    /\ payloadExecuted
    /\ scriptRun = "win10"
    /\ extraDowns = 1
    /\ d7 = "LOW"
    /\ d10 = "LOW"

\* C6: payloadExecuted is false while any output action of the script
\* remains, is set once, by the last step of the script, is never reset,
\* nothing is sent after it is set, and at most one script is dispatched,
\* once (exactly one when the flag is set).
C6_CompletedFlag ==
    /\ [](pc \in InScript => ~payloadExecuted)
    /\ [](payloadExecuted =>
            /\ pc \in {"finish", "loop"}
            /\ scriptRun # "none"
            /\ dispatches = 1
            /\ ip = Len(Script))
    /\ [](dispatches <= 1)
    /\ [][ (~payloadExecuted /\ payloadExecuted') =>
             (AtStep("complete") /\ ip = Len(Script)) ]_vars
    /\ [][ payloadExecuted =>
             /\ payloadExecuted'
             /\ out' = out
             /\ keyboardBegun' = keyboardBegun
             /\ scriptRun' = scriptRun ]_vars

C6_Witness ==
    /\ pc = "loop"
    /\ payloadExecuted
    /\ led = "ON"
    /\ out = Emitted(Script, 1, extraDowns)

\* C7: if the display is found, both wires start in place, D7 is then
\* removed and stays removed (after finitely many touches) and D10 stays in
\* place, the device eventually is in the terminal done state having run the
\* BIOS script in ModeA, and it never halts.
C7_Done ==
    /\ pc = "loop"
    /\ payloadExecuted
    /\ led = "ON"
    /\ win10Mode = FALSE
    /\ scriptRun = "bios"
    /\ errorNum = 0

C7_EndToEnd ==
    ( /\ d7 = "LOW" /\ d10 = "LOW" /\ initDisplay(bus)
      /\ <>[](d7 = "HIGH")
      /\ [](d10 = "LOW") )
    => (<>C7_Done /\ [](pc # "halt"))

C7_Witness ==
    /\ C7_Done
    /\ waited
    /\ d7 = "HIGH"
    /\ d10 = "LOW"
    /\ extraDowns >= 1

\* C8: the arming wait has no timeout: in the wait nothing has been sent,
\* no mode is resolved, nothing is halted or completed, and the wait is left
\* only by a poll that reads D7 HIGH.
C8_WaitHasNoTimeout ==
    /\ [](pc \in Waiting =>
            /\ out = << >>
            /\ ~keyboardBegun
            /\ ~payloadExecuted
            /\ resolveD7 = "unread"
            /\ scriptRun = "none"
            /\ errorNum = 0)
    /\ [][ (pc \in Waiting /\ pc' \notin Waiting) =>
             (pc = "wait_off" /\ d7 = "HIGH") ]_vars

C8_Witness ==
    /\ pc = "wait_on"
    /\ waitPolls = MaxWaitPolls
    /\ d7 = "LOW"

\* C9: at a poll of the window a DOWN is sent if and only if D7 reads
\* asserted (LOW) at that poll and did not read asserted at the previous
\* poll; during one continuous assertion exactly one DOWN is sent.
C9_OneActionPerEdge ==
    /\ [][ (pc = "adjust" /\ pc' = "adjust" /\ spent' # spent) =>
             /\ out' = out \/ out' = Append(out, "DOWN")
             /\ (out' = Append(out, "DOWN"))
                    <=> (d7 = "LOW" /\ lastPollD7 # "LOW") ]_vars
    /\ [](heldPolls >= 1 => holdDowns = 1)

C9_Witness ==
    /\ pc = "adjust"
    /\ heldPolls = MaxHeldPolls
    /\ holdDowns = 1
    /\ extraDowns = 1

\* C10: the loop is left at the first poll at which the current deadline has
\* elapsed since windowStart: without an edge after initialWait, returning
\* 0; with edges, touchWait after the reset that follows the last edge; with
\* one edge at initialWait/2 it returns 1 after initialWait/2 + touchWait
\* plus the time of the key press, not at initialWait.
C10_ClosesAtDeadline ==
    pc = "adjust_done" =>
        /\ GeU32(Elapsed(now, windowStart), currentWait)
        /\ ~GeU32(Elapsed(now, windowStart) - POLL_DELAY, currentWait)
        /\ extraDowns = 0 =>
               /\ currentWait = INITIAL_WAIT
               /\ spent = INITIAL_WAIT
        /\ extraDowns >= 1 =>
               /\ currentWait = TOUCH_WAIT
               /\ spent = edgeAt + PressKeyTime + TOUCH_DELAY + TOUCH_WAIT
        /\ (extraDowns = 1 /\ edgeAt = INITIAL_WAIT \div 2) =>
               /\ spent = (INITIAL_WAIT \div 2) + TOUCH_WAIT
                          + PressKeyTime + TOUCH_DELAY
               /\ spent # INITIAL_WAIT

C10_Witness ==
    /\ pc = "adjust_done"
    /\ extraDowns = 1
    /\ edgeAt = INITIAL_WAIT \div 2
    /\ spent = (INITIAL_WAIT \div 2) + TOUCH_WAIT + PressKeyTime + TOUCH_DELAY

\* the keys a window that has counted k touches has sent
Downs(k) == [j \in 1..k |-> "DOWN"]

InWindow == {"adjust", "adjust_done"}

\* C11: during a call of dynamicDownAdjustment the touch counter equals the
\* number of DOWN keys sent so far in the call and never decreases; it goes
\* up, by one, only at a poll that reads D7 asserted after a poll that did
\* not; that poll sends the DOWN, restarts the window at the current time and
\* sets the deadline to touchWait; so the deadline is initialWait while the
\* counter is 0 and touchWait once it is positive; and the value returned is
\* the final counter.
C11_TouchCounter ==
    /\ [](pc \in InWindow =>
            /\ out = Downs(extraDowns)
            /\ extraDowns = 0 => currentWait = initialWaitSec * 1000
            /\ extraDowns > 0 => currentWait = touchWaitSec * 1000)
    /\ [][ pc = "adjust" =>
             (extraDowns' = extraDowns \/ extraDowns' = extraDowns + 1) ]_vars
    /\ [][ (pc = "adjust" /\ extraDowns' = extraDowns + 1) =>
             /\ d7 = "LOW"
             /\ lastPollD7 # "LOW"
             /\ out' = Append(out, "DOWN")
             /\ Elapsed(now', windowStart') = POLL_DELAY
             /\ currentWait' = touchWaitSec * 1000 ]_vars
    /\ [][ (pc = "adjust" /\ extraDowns' = extraDowns) =>
             /\ windowStart' = windowStart
             /\ currentWait' = currentWait ]_vars
    /\ [][ (pc = "adjust_done" /\ pc' # pc) =>
             /\ pc' = "returned"
             /\ extraDowns' = extraDowns
             /\ out' = out ]_vars
    /\ [](pc = "returned" => out = Downs(extraDowns))

C11_Witness ==
    /\ pc = "returned"
    /\ extraDowns = 2
    /\ out = << "DOWN", "DOWN" >>

\* C12 (as claimed): whatever the monitored wire does, the call of
\* dynamicDownAdjustment eventually returns.
C12_AlwaysReturns == <>(pc = "returned")

\* C12 (amended): if the monitored wire eventually stays where it is, so that
\* only finitely many rising edges occur, the call eventually returns.
C12_ReturnsOnceSettled ==
    (<>[](d7 = "HIGH") \/ <>[](d7 = "LOW")) => <>(pc = "returned")

C12_Witness ==
    /\ pc = "returned"
    /\ extraDowns = MaxTouches

HaltStates == {"haltWithError", "flash", "halt"}

\* the end of one cycle of the blink pattern: the long pause is executed
CycleEnds == blinkStage = "ones" /\ blinkStage' = "top"

\* the long and short pulses one cycle makes for a code, from its digits
LongPulses(n) == IF n >= 10 THEN n \div 10 ELSE 0

ShortPulses(n) ==
    IF n < 10 THEN n ELSE IF n % 10 = 0 THEN 10 ELSE n % 10

\* C13: a halt is terminal.  haltWithError(code) reports the labels of the
\* code on Serial and on the display, flashes the backlight, and then blinks
\* the pattern of the code forever; setup() finding no display reports on
\* Serial and blinks code 1 or 2 forever; neither returns; after the halt is
\* entered no key is sent, the keyboard is not begun, the arming signal is
\* never read and payloadExecuted stays false.
C13_HaltIsTerminal ==
    /\ [](pc \in HaltStates \/ (pc = "diagnose" /\ errorNum = 0))
    /\ [][ (pc \in HaltStates) =>
             (pc' \in HaltStates /\ errorNum' = errorNum) ]_vars
    /\ [](/\ out = << >>
          /\ ~keyboardBegun
          /\ ~payloadExecuted
          /\ scriptRun = "none"
          /\ ~sawArmed
          /\ resolveD7 = "unread")
    /\ [](pc = "halt" =>
            \/ /\ flashCount = 5
               /\ serial = << "Code: E" \o (IF errorNum < 10 THEN "0" ELSE "")
                                        \o ToString(errorNum),
                              "Message: " \o getErrorInfo(errorNum).shortMsg,
                              "Detail: " \o getErrorInfo(errorNum).detailMsg >>
               /\ initDisplay(bus) =>
                      lcd = << WarningChar \o getErrorInfo(errorNum).shortMsg,
                               getErrorInfo(errorNum).detailMsg >>
            \/ /\ flashCount = 0
               /\ errorNum \in {1, 2}
               /\ serial # << >>
               /\ ~lcdAvailable)
    /\ [][ (pc = "halt" /\ CycleEnds) =>
             /\ longBlinks = LongPulses(errorNum)
             /\ shortBlinks = ShortPulses(errorNum) ]_vars
    /\ <>(pc = "halt")
    /\ []<><< pc = "halt" /\ CycleEnds >>_vars

C13_Witness ==
    /\ pc = "halt"
    /\ errorNum = ERR_SWITCH_FLOATING
    /\ flashCount = 5
    /\ lcd = << WarningChar \o "E10:BAD BUTTON", "Pin floating" >>
    /\ blinkPause = CYCLE_PAUSE
    /\ longBlinks = 1
    /\ shortBlinks = 10
    /\ d7 = "HIGH"

\* C20: for every n in 1..99 one cycle of blinkErrorPattern(n) is: for
\* n >= 10, n div 10 long pulses, the pause between the digits, then n mod 10
\* short pulses (ten when n mod 10 is 0); for n < 10, n short pulses and no
\* long one; then the longer pause; and the cycle is repeated forever for the
\* same n.
C20_BlinkCycle ==
    /\ [][ errorNum' = errorNum ]_vars
    /\ [](longBlinks <= LongPulses(errorNum))
    /\ [](shortBlinks > 0 => longBlinks = LongPulses(errorNum))
    /\ [][ (blinkStage = "tens" /\ blinkStage' = "ones") =>
             /\ errorNum >= 10
             /\ longBlinks = LongPulses(errorNum)
             /\ shortBlinks = 0
             /\ blinkPause' = 500 ]_vars
    /\ [](errorNum < 10 => blinkStage \notin {"tens", "tens_lit"})
    /\ [](led = "ON" => (blinkMs = 400 <=> shortBlinks = 0))
    /\ [](led = "ON" => (blinkMs = 150 <=> shortBlinks > 0))
    /\ [][ CycleEnds =>
             /\ longBlinks = LongPulses(errorNum)
             /\ shortBlinks = ShortPulses(errorNum)
             /\ blinkPause' = 2000
             /\ led = "OFF" ]_vars
    /\ []<><< CycleEnds >>_vars

C20_Witness ==
    /\ errorNum = 20
    /\ blinkPause = CYCLE_PAUSE
    /\ longBlinks = 2
    /\ shortBlinks = 10

\* the device has left the hardware checks of setup()
PastStartup == pc \notin {"boot", "diagnose", "halt", "startup"}

\* C14 (as claimed): the startup diagnostics of the dual-wire firmware take
\* the ten samples of the primary input and halt on a floating result, so
\* the arming wait and the scripts are reached only with the input sampled
\* and found stable.
C14_InputCheckedAtStartup ==
    PastStartup =>
        /\ highCount + lowCount = SAMPLES
        /\ ~(highCount > 0 /\ lowCount > 0 /\ highCount < 8 /\ lowCount < 8)

\* C15 (as claimed): with h HIGH and 10 - h LOW samples checkSwitchWiring
\* returns the floating outcome exactly when h is in 2..8.
C15_FloatingFrom2To8 ==
    (pc = "hw_returned" /\ highCount + lowCount = SAMPLES) =>
        /\ hwResult = ERR_SWITCH_FLOATING <=> highCount \in 2..8
        /\ hwResult = ERR_NONE <=> highCount \notin 2..8

\* C15 (amended): with h HIGH and 10 - h LOW samples checkSwitchWiring
\* returns the floating outcome exactly when h is in 3..7: both counts at
\* least 3 and at most 7.
C15_FloatingFrom3To7 ==
    /\ highCount + lowCount <= SAMPLES
    /\ (pc = "hw_returned" /\ hwResult \in {ERR_NONE, ERR_SWITCH_FLOATING}) =>
           /\ lowCount = 10 - highCount
           /\ hwResult = ERR_SWITCH_FLOATING <=> highCount \in 3..7
           /\ hwResult = ERR_NONE <=> highCount \notin 3..7

C15_Witness ==
    /\ pc = "hw_returned"
    /\ highCount = 2
    /\ lowCount = 8
    /\ hwResult = ERR_NONE

\* the bus answers at some address of the scan, 1..126
Responds == bus \cap (1..126) # {}

Sampled == highCount + lowCount > 0

\* C16: checkHardware makes the bus scan, the identity check and the input
\* check in that order and returns the first failure: a bus failure whatever
\* the display and the input are, an identity failure whatever the input is;
\* the input is sampled only when both earlier checks have passed, and
\* ERR_NONE is returned only when all three pass.
C16_FirstFailureWins ==
    /\ Sampled => (Responds /\ LCD_ADDRESS \in bus)
    /\ pc = "hw_returned" =>
           /\ ~Responds => (hwResult = ERR_I2C_BUS_ERROR /\ ~Sampled)
           /\ (Responds /\ LCD_ADDRESS \notin bus) =>
                  /\ hwResult \in {ERR_LCD_NOT_FOUND, ERR_LCD_INIT_FAILED}
                  /\ ~Sampled
           /\ (Responds /\ LCD_ADDRESS \in bus) =>
                  /\ highCount + lowCount = 10
                  /\ hwResult \in {ERR_NONE, ERR_SWITCH_FLOATING}
           /\ hwResult = ERR_NONE =>
                  /\ Responds
                  /\ LCD_ADDRESS \in bus
                  /\ \/ highCount = 0 \/ lowCount = 0
                     \/ highCount >= 8 \/ lowCount >= 8

C16_Witness ==
    /\ pc = "hw_returned"
    /\ hwResult = ERR_LCD_NOT_FOUND
    /\ ~Sampled
    /\ flips = MaxFlips

\* C17: checkHardware returns ERR_I2C_BUS_ERROR if and only if no address in
\* 1..126 answers; when some address answers but neither the configured nor
\* the alternate display address does, it returns ERR_LCD_NOT_FOUND.
C17_NoDevicesIffBusEmpty ==
    pc = "hw_returned" =>
        /\ hwResult = ERR_I2C_BUS_ERROR <=> (\A a \in 1..126 : a \notin bus)
        /\ ( /\ \E a \in 1..126 : a \in bus
             /\ LCD_ADDRESS \notin bus
             /\ ALT_ADDRESS \notin bus ) => hwResult = ERR_LCD_NOT_FOUND

C17_Witness ==
    /\ pc = "hw_returned"
    /\ bus = {80}
    /\ hwResult = ERR_LCD_NOT_FOUND

\* C18 (as claimed): on a bus whose only device answers at the documented
\* display address other than the configured one, checkHardware returns
\* ERR_LCD_INIT_FAILED.
C18_FallbackOnlyIsWrongIdentity ==
    \A a \in DocumentedAddresses \ {LCD_ADDRESS} :
        (pc = "hw_returned" /\ bus = {a}) => hwResult = ERR_LCD_INIT_FAILED

\* C19 (as claimed): with the display reported absent the firmware does not
\* halt: it goes on to the arming wait as with the display present.
C19_AbsentDisplayTolerated ==
    ~initDisplay(bus) => (pc # "halt" /\ errorNum = 0)

\* C19 (amended): with the display reported absent setup() halts in
\* blinkErrorPattern(1) or (2) before the arming wait: D7 is not read, no
\* mode is resolved, no script runs, no key is sent; the arming wait, the mode
\* resolution and the scripts are reached only with lcdAvailable true.
C19_AbsentDisplayHalts ==
    /\ ~lcdAvailable =>
           /\ pc \in {"boot", "diagnose", "halt"}
           /\ out = << >>
           /\ ~keyboardBegun
           /\ scriptRun = "none"
           /\ ~sawArmed
           /\ resolveD7 = "unread"
           /\ ~payloadExecuted
    /\ pc \in {"diagnose", "halt"} => LCD_ADDRESS \notin bus
    /\ pc = "halt" => errorNum \in {1, 2}
    /\ (pc # "boot" /\ LCD_ADDRESS \notin bus) => pc \in {"diagnose", "halt"}
    /\ PastStartup => lcdAvailable

C19_Witness ==
    /\ pc = "halt"
    /\ errorNum = 2
    /\ bus = {39}
    /\ d7 = "HIGH"
    /\ blinkPause = CYCLE_PAUSE

\* C21 (as claimed): halted for E01 the LED makes 1 blink of the long cadence
\* (the one of the tens digit, 400 ms) per cycle, and halted for E02 it makes
\* 2 of them; no blink of the short cadence is made.
C21_LongBlinksForE01E02 ==
    (pc = "halt" /\ errorNum \in {ERR_LCD_NOT_FOUND, ERR_LCD_INIT_FAILED}) =>
        /\ shortBlinks = 0
        /\ led = "ON" => blinkMs = LONG_BLINK
        /\ blinkPause = CYCLE_PAUSE => longBlinks = errorNum

\* the enumerators of ErrorCode
Enumerators == ErrorCodes \cup {ERR_NONE}

\* the enumerators getErrorInfo has a case for: all but ERR_UNKNOWN, which is
\* served by the default case
DefinedCodes == Enumerators \ {ERR_UNKNOWN}

\* the numbers of long and of short pulses in a cycle
PulseCounts(cycle) ==
    << Cardinality({i \in DOMAIN cycle : cycle[i] = 400}),
       Cardinality({i \in DOMAIN cycle : cycle[i] = 150}) >>

\* C22: two distinct codes of the enumeration get distinct blink counts from
\* getErrorInfo and make distinct patterns (long pulses, short pulses) in
\* blinkErrorPattern; a value with no case of its own gets the fallback count
\* 99, which no code with a case of its own has.
C22_CodesTellApart ==
    pc = "table_done" =>
        /\ (codeA \in Enumerators /\ codeB \in Enumerators /\ codeA # codeB)
               => /\ infoA.ledBlinks # infoB.ledBlinks
                  /\ PulseCounts(cycleA) # PulseCounts(cycleB)
        /\ codeA \notin DefinedCodes => infoA.ledBlinks = 99
        /\ codeB \in DefinedCodes => infoB.ledBlinks # 99
        /\ (codeA \notin DefinedCodes /\ codeB \in DefinedCodes)
               => infoA.ledBlinks # infoB.ledBlinks

C22_Witness ==
    /\ pc = "table_done"
    /\ codeA = ERR_SWITCH_FLOATING
    /\ codeB = ERR_BOOT_TIMEOUT
    /\ infoA.ledBlinks = 10
    /\ infoB.ledBlinks = 20
    /\ PulseCounts(cycleA) = << 1, 10 >>
    /\ PulseCounts(cycleB) = << 2, 10 >>

\* C23: for every value of the code, with a case of its own or not, the short
\* label and the detail label getErrorInfo returns have at most 16 characters.
C23_LabelsFitDisplay ==
    pc # "table_lookup" =>
        /\ Len(infoA.shortMsg) <= 16
        /\ Len(infoA.detailMsg) <= 16
        /\ Len(infoA.shortMsg) > 0
        /\ Len(infoA.detailMsg) > 0

C23_Witness ==
    /\ pc = "table_blink"
    /\ codeA = ERR_LCD_NOT_FOUND
    /\ infoA.detailMsg = "Check I2C wiring"
    /\ Len(infoA.detailMsg) = 16
    /\ codeB = 50
    /\ infoB.shortMsg = "E99:UNKNOWN"

\* the codes of the hardware-detection range and of the wiring range
DetectionCodes == {1, 2, 3, 4, 10, 11}

\* the codes of the runtime range, and the fallback code
RuntimeCodes == {20, 21, 22, 23, 99}

Diagnosing == {"boot", "diagnose", "startup"}

\* C24: the dual-wire firmware halts only out of its startup diagnostics and
\* only with a code of the hardware-detection or wiring range: a code is
\* raised only by the display diagnosis, never a runtime code (20..23) and
\* never 99; once the diagnostics are passed there is no halt: not in the
\* arming wait, not after it.
C24_HaltOnlyFromDiagnostics ==
    /\ [](errorNum \in {0} \cup DetectionCodes)
    /\ [](errorNum \notin RuntimeCodes)
    /\ [](pc = "halt" <=> errorNum # 0)
    /\ [](pc = "halt" =>
            /\ ~sawArmed /\ ~waited
            /\ resolveD7 = "unread"
            /\ scriptRun = "none"
            /\ out = << >>)
    /\ [][ (pc # "halt" /\ pc' = "halt") => pc = "diagnose" ]_vars
    /\ [][ (pc \notin Diagnosing) =>
             /\ pc' \notin Diagnosing
             /\ pc' = "halt" => pc = "halt" ]_vars
    /\ [][ errorNum # 0 => errorNum' = errorNum ]_vars

C24_Witness ==
    /\ pc = "halt"
    /\ errorNum = ERR_LCD_NOT_FOUND
    /\ bus = {}
    /\ shortBlinks = 1
    /\ blinkPause = CYCLE_PAUSE
    /\ flips = MaxFlips

\* the step of the Windows 10 script that opens the partition-removal phase
\* (STEP 9) and the step that follows its last statement
PhaseStart ==
    CHOOSE i \in 1..Len(Win10Script) :
        Win10Script[i].op = "show" /\ Win10Script[i].l1 = "WIPING DISK"

PhaseEnd ==
    CHOOSE i \in 1..Len(Win10Script) :
        Win10Script[i].op = "show" /\ Win10Script[i].l1 = "FINALIZING"

InPhase ==
    /\ scriptRun = "win10"
    /\ pc = "script"
    /\ ip >= PhaseStart
    /\ ip < PhaseEnd

AtPhaseEnd == scriptRun = "win10" /\ pc = "script" /\ ip = PhaseEnd

\* number of key presses the steps i .. j - 1 of the script make
RECURSIVE KeySteps(_, _)
KeySteps(i, j) ==
    IF i >= j THEN 0
    ELSE (IF Win10Script[i].op = "key" THEN 1 ELSE 0) + KeySteps(i + 1, j)

\* the keys sent since the phase was entered, at its end
PhaseKeys ==
    SubSeq(out, Len(out) - KeySteps(PhaseStart, PhaseEnd) + 1, Len(out))

\* length of the run of arrow keys that starts at position i of keys
RECURSIVE ArrowRun(_, _)
ArrowRun(keys, i) ==
    IF i <= Len(keys) /\ keys[i] \in {"UP", "DOWN"}
    THEN 1 + ArrowRun(keys, i + 1)
    ELSE 0

\* the removal gesture and the row move of the sweep numbered s (from 0)
GestureKeys(s) ==
    << "TAB", "RIGHT", "ENTER", "TAB", "ENTER",
       IF s % 2 = 0 THEN "DOWN" ELSE "UP" >>

\* keys, from position o + 1 on, are the sweeps s, s + 1, .. , 3 and nothing
\* else: each sweep 8 gestures with their row move, then a burst of arrow keys
RECURSIVE SweepsFrom(_, _, _)
SweepsFrom(keys, s, o) ==
    IF s = 4 THEN o = Len(keys)
    ELSE /\ o + 48 <= Len(keys)
         /\ \A g \in 0..7 :
                SubSeq(keys, o + 6 * g + 1, o + 6 * g + 6) = GestureKeys(s)
         /\ ArrowRun(keys, o + 49) >= 1
         /\ SweepsFrom(keys, s + 1, o + 48 + ArrowRun(keys, o + 49))

\* C25: whatever the wires do, the partition-removal phase sends, after the
\* arrow keys that home the cursor, exactly 4 sweeps of exactly 8 gestures
\* (32 in all), each gesture TAB, RIGHT, ENTER, TAB, ENTER followed by one row
\* move, DOWN in sweeps 1 and 3 and UP in sweeps 2 and 4, and a burst of arrow
\* keys after every sweep; its steps are taken in order and the phase always
\* comes to its end.
C25_BoundedSweep ==
    /\ [](AtPhaseEnd =>
            SweepsFrom(PhaseKeys, 0, ArrowRun(PhaseKeys, 1)))
    /\ [][ InPhase => /\ pc' = "script"
                      /\ scriptRun' = scriptRun
                      /\ ip' = ip \/ ip' = ip + 1 ]_vars
    /\ (scriptRun = "win10" /\ pc = "script" /\ ip = PhaseStart)
           ~> AtPhaseEnd

C25_Witness ==
    /\ AtPhaseEnd
    /\ Len(PhaseKeys) > 32 * 6
    /\ flips = MaxFlips
    /\ d7 = "LOW"
    /\ d10 = "LOW"

\* the row the cursor of a list of rows rows is on after the first n of
\* keys, from the first row: UP and DOWN move it by one row, it stops at the
\* first row (0) and at the last one, the other keys leave it where it is
RECURSIVE CursorAfter(_, _, _)
CursorAfter(keys, n, rows) ==
    IF n = 0 THEN 0
    ELSE LET c == CursorAfter(keys, n - 1, rows)
         IN  CASE keys[n] = "UP" -> IF c > 0 THEN c - 1 ELSE c
               [] keys[n] = "DOWN" -> IF c < rows - 1 THEN c + 1 ELSE c
               [] OTHER -> c

\* the keys sent since the phase was entered
KeysSincePhase ==
    SubSeq(out, Len(out) - KeySteps(PhaseStart, ip) + 1, Len(out))

\* lists 10 arrow presses take from one end to the other, of 3 rows at least
ListSizes == 3..11

\* a sweep is about to begin: its title is the next thing shown
SweepBegins ==
    /\ scriptRun = "win10"
    /\ pc = "script"
    /\ Cur.op = "show"
    /\ Cur.l2 = "Deleting..."

\* C26 (as claimed): when a downward sweep begins the cursor is at the top of
\* the list (the header row or the first row below it), and when an upward
\* sweep begins it is on the last row.
C26_SweepStartsAtOppositeEnd ==
    SweepBegins =>
        \A rows \in ListSizes :
            LET c == CursorAfter(KeysSincePhase, Len(KeysSincePhase), rows)
            IN  IF Cur.l1 \in {"SWEEP 1/4 DN", "SWEEP 3/4 DN"}
                THEN c <= 1
                ELSE c = rows - 1

\* the stage of setup() a position belongs to: 1 diagnostics, 2 arming wait,
\* 3 mode resolution, 4 script, 5 terminal (done), 6 terminal (halted)
Stage(p) ==
    CASE p \in {"boot", "diagnose", "startup"} -> 1
      [] p \in {"gate", "wait_on", "wait_off"} -> 2
      [] p \in {"resolve_d7", "resolve_d10", "show_mode", "armed",
                "dispatch"} -> 3
      [] p \in {"script", "spam", "call", "adjust", "adjust_done"} -> 4
      [] p \in {"finish", "loop"} -> 5
      [] OTHER -> 6

Positions ==
    {"boot", "diagnose", "startup", "gate", "wait_on", "wait_off",
     "resolve_d7", "resolve_d10", "show_mode", "armed", "dispatch",
     "script", "spam", "call", "adjust", "adjust_done", "finish", "loop",
     "halt"}

Keys == {"F2", "F12", "DOWN", "UP", "TAB", "RIGHT", "ENTER", "SPACE"}

\* what the key log can be after one step
OutNext == {out, out \o Password} \cup {Append(out, k) : k \in Keys}

\* from a state and the levels of the two pins in it, a step of the firmware
\* leads to one position, one script step, one key log, one LED level and one
\* value of each flag and local: no step has two outcomes
OneOutcome ==
    /\ Cardinality({p \in Positions : ENABLED (Step /\ pc' = p)}) <= 1
    /\ ~ENABLED (Step /\ pc' \notin Positions)
    /\ Cardinality({o \in OutNext : ENABLED (Step /\ out' = o)}) <= 1
    /\ ~ENABLED (Step /\ out' \notin OutNext)
    /\ Cardinality({i \in {1, ip, ip + 1} : ENABLED (Step /\ ip' = i)}) <= 1
    /\ ~ENABLED (Step /\ ip' \notin {1, ip, ip + 1})
    /\ \A b \in BOOLEAN :
           /\ ~(ENABLED (Step /\ win10Mode' = b)
                  /\ ENABLED (Step /\ win10Mode' # b))
           /\ ~(ENABLED (Step /\ payloadExecuted' = b)
                  /\ ENABLED (Step /\ payloadExecuted' # b))
           /\ ~(ENABLED (Step /\ keyboardBegun' = b)
                  /\ ENABLED (Step /\ keyboardBegun' # b))
           /\ ~(ENABLED (Step /\ lcdAvailable' = b)
                  /\ ENABLED (Step /\ lcdAvailable' # b))
           /\ ~(ENABLED (Step /\ wasConnected' = b)
                  /\ ENABLED (Step /\ wasConnected' # b))
    /\ \A l \in {"ON", "OFF"} :
           ~(ENABLED (Step /\ led' = l) /\ ENABLED (Step /\ led' # l))
    /\ \A r \in {"none", "bios", "win10"} :
           ~(ENABLED (Step /\ scriptRun' = r)
               /\ ENABLED (Step /\ scriptRun' # r))
    /\ \A e \in 0..2 :
           ~(ENABLED (Step /\ errorNum' = e)
               /\ ENABLED (Step /\ errorNum' # e))
    /\ \A k \in 0..(MaxTouches + 1) :
           ~(ENABLED (Step /\ extraDowns' = k)
               /\ ENABLED (Step /\ extraDowns' # k))

\* C27: the firmware is deterministic: given the state and the inputs read,
\* every step has one outcome, so two runs fed the same bus, the same pin
\* reads and the same clock send the same keys and end in the same state; and
\* in every run the stages come in the order diagnostics, arming wait, mode
\* resolution, script, terminal state: a step stays in its stage or goes to
\* the next one (or from the diagnostics to the halt), at most one script is
\* dispatched, exactly one in a run that reaches the done state, and the
\* terminal states are never left.
C27_Deterministic ==
    /\ []OneOutcome
    /\ [][ \/ Stage(pc') = Stage(pc)
           \/ Stage(pc') = Stage(pc) + 1
           \/ Stage(pc) = 1 /\ pc' = "halt" ]_vars
    /\ [](dispatches <= 1)
    /\ [](Stage(pc) = 4 => (dispatches = 1 /\ scriptRun # "none"))
    /\ [](Stage(pc) = 5 => (dispatches = 1 /\ scriptRun # "none"))
    /\ [](Stage(pc) < 4 => (dispatches = 0 /\ scriptRun = "none"))
    /\ [][ (pc \in {"loop", "halt"}) => pc' = pc ]_vars

C27_Witness ==
    /\ pc = "loop"
    /\ dispatches = 1
    /\ scriptRun = "win10"
    /\ waited
    /\ flips = 1
    /\ payloadExecuted

\* ------------------------------------------------------------------------
\* C28: in the button firmware executePayload is invoked only after the
\* button has read pressed at every sample taken from the start of the hold
\* countdown until at least ARM_HOLD_TIME (3000 ms) had gone by, and no
\* keystroke is sent (nor the keyboard begun) without such a hold.
\* ------------------------------------------------------------------------
FullHold == allPressed /\ spent >= 3000

C28_PayloadOnlyAfterFullHold ==
    /\ ARM_HOLD_TIME = 3000
    /\ (pc = "armed" \/ scriptRun = "wipe") => FullHold
    /\ (out # << >> \/ keyboardBegun \/ payloadExecuted)
           => scriptRun = "wipe" /\ FullHold

\* the payload is sending keys after a hold that followed a cancelled one
C28_Witness ==
    /\ scriptRun = "wipe"
    /\ pc = "script"
    /\ Len(out) >= 2
    /\ cancels >= 1
    /\ FullHold

\* ------------------------------------------------------------------------
\* C29: a sample of the hold countdown that reads the button released
\* aborts the attempt: waitForArmHold returns false, no key is sent,
\* payloadExecuted stays false and the firmware comes back to the READY
\* loop; the next countdown starts from zero, and a hold kept up from then
\* on arms.
\* ------------------------------------------------------------------------
Aborting == {"cancelled", "resume"}

C29_EarlyReleaseAborts ==
    /\ [][ (pc = "hold" /\ d7 = "HIGH" /\ pc' # pc) => pc' = "cancelled" ]_vars
    /\ [](pc \in Aborting
              => out = << >> /\ ~keyboardBegun /\ ~payloadExecuted)
    /\ [][ (pc \in Aborting /\ pc' \notin Aborting)
               => /\ pc' = "ready"
                  /\ lcd' = << "READY", "Press btn 3s..." >>
                  /\ out' = << >>
                  /\ ~payloadExecuted' ]_vars
    /\ (pc = "cancelled") ~> (pc = "ready")
    /\ [][ (pc # "hold" /\ pc' = "hold")
               => /\ now' = startTime'
                  /\ spent' = 0
                  /\ lastSecond' = -1 ]_vars
    /\ []((pc = "hold" /\ [](d7 = "LOW")) => <>(pc = "armed"))
    /\ [](pc = "armed" => allPressed /\ spent >= 3000)

\* a hold has armed after an earlier one was given up
C29_Witness == pc = "armed" /\ cancels >= 1 /\ out = << >>

\* ------------------------------------------------------------------------
\* C30, as stated: in the build with DEMO_MODE 1 no call of a keyboard
\* utility makes a call of the Keyboard object or sends a key, every call
\* returns, and the caller goes on as in the other build: what a utility
\* hands back to it (the count spamKey returns, one press every intervalMs
\* for durationMs) is the same.
\* ------------------------------------------------------------------------
Quiet == hidCalls = 0 /\ out = << >> /\ ~keyboardBegun

\* iterations of a loop that runs while less than d ms have gone by and
\* takes i ms each time
Rounds(d, i) == (d + i - 1) \div i

C30_DemoLeavesCallerUnchanged ==
    /\ demoMode => Quiet
    /\ pc \in {"util_idle", "spamKey"}
    /\ (pc = "util_idle" /\ intervalMs > 0)
           => spamCount = Rounds(durationMs, intervalMs)

\* ------------------------------------------------------------------------
\* C30, amended: in the build with DEMO_MODE 1 no call of a keyboard
\* utility makes a call of the Keyboard object or sends a key, and every
\* call returns to its caller (spamKey with intervalMs above
\* KEY_HOLD_DELAY); the count spamKey returns is the one of a loop whose
\* iterations are KEY_HOLD_DELAY shorter than in the other build.
\* ------------------------------------------------------------------------
C30_DemoSendsNothing ==
    /\ [](demoMode => Quiet)
    /\ [](pc \in {"util_idle", "spamKey"})
    /\ (pc = "spamKey") ~> (pc = "util_idle")
    /\ []((pc = "util_idle" /\ intervalMs > 0)
              => spamCount = Rounds(durationMs,
                                    IF demoMode THEN intervalMs - 50
                                    ELSE intervalMs))

\* three calls, one of them of spamKey, have returned in the demo build
C30_Witness ==
    /\ demoMode
    /\ pc = "util_idle"
    /\ calls >= 3
    /\ spamCount >= 4
    /\ Len(serial) >= 1

\* ------------------------------------------------------------------------
\* C31: executePayload of the button firmware goes through the phases 1
\* (boot menu), 2 (wait), 3 (setup navigation), 4 (partition wipe) and 5
\* (start of the installation) in this order and once each: the display
\* passes to the screens of phase k by the announcement PHASE k/5 and by
\* nothing else, every key is one of the phase announced last, the keys
\* sent in all are those of the five phases, payloadExecuted is set only
\* after them, and from then on the firmware is in loop() and sends nothing.
\* ------------------------------------------------------------------------
Announcement(k) == "PHASE " \o ToString(k) \o "/5"

\* the phase a screen belongs to: 0 before the first announcement, 6 for
\* the completion screen
PhaseOfScreen(l1) ==
    CASE l1 \in {Announcement(1), "OPENING BIOS", "BOOT MENU"} -> 1
      [] l1 \in {Announcement(2), "WAITING"} -> 2
      [] l1 \in {Announcement(3)}
              \cup {"SETUP [" \o ToString(i) \o "/5]" : i \in 1..5} -> 3
      [] l1 \in {Announcement(4), "WIPING DISK"} -> 4
      [] l1 \in {Announcement(5), "STARTING"} -> 5
      [] l1 = "\\x01 COMPLETE \\x01" -> 6
      [] OTHER -> 0

\* the keys a phase may send
PhaseKeySet(k) ==
    CASE k = 1 -> {"F12", "DOWN", "ENTER"}
      [] k = 3 -> {"ENTER", "TAB", " "}
      [] k = 4 -> {"DOWN", "ALT+d", "ENTER"}
      [] k = 5 -> {"DOWN", "TAB", "ENTER"}
      [] OTHER -> {}

\* the keys of the phases, after the F12 presses of the timed loop
PayloadKeys ==
    << "DOWN", "DOWN", "ENTER" >>
    \o << "ENTER", "ENTER", "TAB", "ENTER", " ", "TAB", "ENTER", "TAB",
          "ENTER" >>
    \o Rep(10, << "DOWN", "ALT+d", "ENTER", "ENTER" >>)
    \o << "DOWN", "TAB", "TAB", "TAB", "TAB", "TAB", "ENTER", "ENTER" >>

\* number of F12 at the head of a sequence of keys
RECURSIVE LeadingF12(_, _)
LeadingF12(keys, n) ==
    IF n < Len(keys) /\ keys[n + 1] = "F12"
    THEN 1 + LeadingF12(keys, n + 1) ELSE 0

C31_PhasesInOrder ==
    /\ [][ (scriptRun' = "wipe" /\ scriptRun = "wipe" /\ lcd' # lcd)
             => LET from == PhaseOfScreen(lcd[1])
                    to == PhaseOfScreen(lcd'[1])
                IN  /\ to \in {from, from + 1}
                    /\ (to = from + 1)
                         <=> (lcd'[1] \in {Announcement(k) : k \in 1..5}
                               \/ to = 6) ]_vars
    /\ [][ (out' # out)
             => /\ Len(out') = Len(out) + 1
                /\ scriptRun = "wipe"
                /\ out'[Len(out')] \in PhaseKeySet(PhaseOfScreen(lcd[1])) ]_vars
    /\ [](payloadExecuted
             => /\ pc = "loop"
                /\ PhaseOfScreen(lcd[1]) = 6
                /\ LeadingF12(out, 0) >= 1
                /\ SubSeq(out, LeadingF12(out, 0) + 1, Len(out))
                       = PayloadKeys)
    /\ [][ payloadExecuted' => (payloadExecuted \/ pc = "script") ]_vars
    /\ [][ payloadExecuted
             => payloadExecuted' /\ out' = out /\ lcd' = lcd ]_vars

\* the payload has run to its end and the firmware is in loop()
C31_Witness ==
    /\ scriptRun = "wipe"
    /\ payloadExecuted
    /\ pc = "loop"
    /\ led = "ON"
    /\ Len(out) > Len(PayloadKeys)

\* a poll of the adjustment window that leaves the window open
OpenPoll == pc = "adjust" /\ pc' = "adjust" /\ spent' # spent

\* C32 (as claimed): once the window has counted a touch, every later
\* release of D7 followed by a touch made before the window closes sends one
\* more DOWN, also when both fall between two polls or inside the key press
\* and the 200 ms delay of the previous DOWN: after every poll that leaves
\* the window open, the DOWNs sent are one more than the touches made since
\* the first was counted.
C32_EveryReassertionCounts ==
    [][ (OpenPoll /\ extraDowns' >= 1) => extraDowns' = 1 + risen ]_vars

\* C32 (amended): once the window has counted a touch, a poll that leaves
\* the window open sends one more DOWN exactly when it reads D7 asserted and
\* the poll before it read D7 released; a release and touch that both fall
\* between two polls (the key press and the 200 ms delay of a DOWN lie
\* between two polls) are not read and send nothing, so the further DOWNs
\* never outnumber the touches made.
C32_SampledReassertionCounts ==
    /\ [][ (OpenPoll /\ extraDowns >= 1) =>
             /\ (lastPollD7 = "HIGH" /\ d7 = "LOW") =>
                    /\ out' = Append(out, "DOWN")
                    /\ extraDowns' = extraDowns + 1
             /\ (lastPollD7 = "LOW" \/ d7 = "HIGH") =>
                    /\ out' = out
                    /\ extraDowns' = extraDowns ]_vars
    /\ [](extraDowns >= 1 => extraDowns <= 1 + risen)

C32_Witness ==
    /\ pc = "adjust"
    /\ extraDowns = 2
    /\ risen = 1
    /\ lastPollD7 = "LOW"

\* every poll of the window so far read D7 asserted: the polls made are those
\* of the present assertion (a poll takes 50 ms, a DOWN 350 ms more)
AssertedSinceFirstPoll ==
    /\ pc \in InWindow
    /\ heldPolls >= 1
    /\ heldPolls < MaxHeldPolls
    /\ spent = POLL_DELAY * heldPolls
               + (PressKeyTime + TOUCH_DELAY) * extraDowns

\* C33: wasConnected starts false, so D7 already asserted at the first poll
\* of dynamicDownAdjustment counts as one touch: that poll sends exactly one
\* DOWN and the deadline becomes touchWait, and as long as every poll since
\* has read D7 asserted no other DOWN is sent.
C33_AssertedAtEntryCountsOnce ==
    /\ [][ (pc = "adjust" /\ lastPollD7 = "none" /\ d7 = "LOW"
            /\ lastPollD7' # "none") =>
             /\ out' = Append(out, "DOWN")
             /\ extraDowns = 0 /\ extraDowns' = 1
             /\ currentWait = initialWaitSec * 1000
             /\ currentWait' = touchWaitSec * 1000
             /\ pc' = "adjust" ]_vars
    /\ [](AssertedSinceFirstPoll =>
             /\ extraDowns = 1
             /\ out = << "DOWN" >>
             /\ pc = "adjust" => currentWait = touchWaitSec * 1000)

C33_Witness ==
    /\ AssertedSinceFirstPoll
    /\ pc = "adjust"
    /\ heldPolls = 4
    /\ d7 = "LOW"
    /\ flips = 0

\* number of keys k at the head of a sequence of keys, from position n + 1
RECURSIVE Leading(_, _, _)
Leading(keys, k, n) ==
    IF n < Len(keys) /\ keys[n + 1] = k
    THEN 1 + Leading(keys, k, n + 1) ELSE 0

\* position of the first ENTER of a sequence of keys that has one
FirstEnter(keys) ==
    CHOOSE i \in 1..Len(keys) :
        keys[i] = "ENTER" /\ \A j \in 1..(i - 1) : keys[j] # "ENTER"

\* C34: in the BIOS script the keys sent between the last F2 of the spam and
\* the first ENTER are DOWN 5 + extraDowns times and nothing else, in the
\* Windows 10 script the keys between the last F12 and the ENTER that
\* selects the boot device are DOWN 1 + extraDowns times and nothing else,
\* extraDowns being what dynamicDownAdjustment returned.
C34_DownsBeforeEnter ==
    (/\ scriptRun \in {"bios", "win10"}
     /\ \E i \in 1..Len(out) : out[i] = "ENTER")
        => LET spamKeyName == IF scriptRun = "win10" THEN "F12" ELSE "F2"
               fixed == IF scriptRun = "win10" THEN 1 ELSE 5
               n == Leading(out, spamKeyName, 0)
               m == FirstEnter(out)
           IN  /\ n >= 1
               /\ SubSeq(out, n + 1, m - 1) = Downs(fixed + extraDowns)

C34_Witness ==
    /\ scriptRun = "bios"
    /\ extraDowns = 2
    /\ Len(out) >= 1
    /\ out[Len(out)] = "ENTER"
    /\ FirstEnter(out) = Len(out)

\* C35: whenever pressKey, pressCombo, pressCombo3, holdKey, typeString or
\* spamKey (or any other keyboard utility) has returned, and between the
\* iterations of spamKey, the HID report holds no key pressed, whatever
\* calls were made before.
C35_NoKeyStaysHeld == pc \in {"util_idle", "spamKey"} => held = {}

C35_Witness ==
    /\ pc = "util_idle"
    /\ ~demoMode
    /\ calls = 3
    /\ out = << "ALT+F12", "CTRL+ALT+DOWN", "F12" >>
    /\ held = {}

\* C36: for every bus on which the display does not answer at LCD_ADDRESS,
\* the number setup() halts with is the code checkHardware() returns for
\* that bus.
C36_SetupAgreesWithCheckHardware ==
    (pc = "hw_returned" /\ ~initDisplay(bus))
        => hwResult = DiagnosedError(bus)

\* the number a cycle of the pattern spells: one long pulse per ten and one
\* short pulse per unit, ten short pulses standing for the digit 0
Encoded(cycle) == 10 * PulseCounts(cycle)[1] + (PulseCounts(cycle)[2] % 10)

\* C37: for every value of the code, with a case of its own or not, the cycle
\* haltWithError blinks spells the blink count getErrorInfo reports for that
\* value (the number of its Enn label).
C37_PatternMatchesTable ==
    pc = "table_done" => Encoded(cycleA) = infoA.ledBlinks

\* the time the present window has lasted, measured without the 32-bit
\* counter: since the call, or since the restart that followed the last touch
Lasted ==
    IF extraDowns = 0 THEN spent
    ELSE spent - (edgeAt + PressKeyTime + TOUCH_DELAY)

\* millis() has rolled over since windowStart was captured
RolledOver == windowStart < 0 /\ now >= 0

\* C38: a window whose windowStart was captured shortly before the 32-bit
\* counter rolls over lasts its current deadline: the loop is not left
\* before the deadline has passed, and it is left at the first poll at which
\* it has.
C38_DeadlineAcrossRollover ==
    (keepHist /\ windowStart < 0) =>
        /\ pc = "adjust" => Lasted <= currentWait
        /\ pc = "adjust_done" =>
               /\ Lasted = currentWait
               /\ RolledOver

C38_Witness ==
    /\ pc = "adjust_done"
    /\ RolledOver
    /\ extraDowns = 1
    /\ currentWait = 2000
    /\ Lasted = 2000

\* C39: every number of remaining seconds the boot-key spam loop writes to
\* the display, after a press of the boot key, lies in 0..10
\* (BOOT_SPAM_DURATION / 1000).
C39_RemainingInRange ==
    [][ (pc = "spam" /\ out' # out /\ lcdAvailable) =>
            /\ shown' >= 0
            /\ shown' <= BOOT_SPAM_DURATION \div 1000 ]_vars

====
